---- MODULE Spec2Model ----
(***************************************************************************)
(* Cross-exchange market making strategy (CrossExchangeMarketMakingStrategy *)
(* in src/unnamed/part_000) together with the parts of the venue           *)
(* (PaperTradeMarket) it calls.                                            *)
(*                                                                         *)
(* Units.  Prices are integers counted in price quanta (ticks), amounts    *)
(* are integers counted in size quanta (lots), quote balances are counted  *)
(* in tick*lot.  Ratios are kept as numerator/denominator pairs, so that   *)
(* every comparison and every floor/ceil of the source is computed         *)
(* exactly.  A taker price is the record [num, den] standing for num/den.  *)
(***************************************************************************)
EXTENDS Integers, Sequences, FiniteSets, TLC

\* ---------------------------------------------------------------- bounds
MaxOrderId == 3
MaxTicks == 3

\* ------------------------------------------------------- configuration
\* market_pairs handed to __init__, in list order
Pairs == {1, 2, 3}
\* (maker.market, maker.trading_pair) of a pair: pair 3 makes on the maker
\* leg of pair 1 and hedges on a taker leg of its own
MakerLeg(p) == IF p = 3 THEN 1 ELSE p
MakerLegs == {MakerLeg(p) : p \in Pairs}
\* market_pair.taker, the market symbol pair of the taker leg: never equal to
\* a market pair
TakerLeg(p) == p + Cardinality(Pairs)
\* maker.quote_asset # taker.quote_asset
QuoteAssetsDiffer(p) == p \in {2, 3}
\* ExchangeRateConversion.convert_token_value(1, taker quote, maker quote)
FxNum == 1001
FxDen == 1000

min_profitability_pct == 1
order_size_taker_balance_factor_permille == 995
order_size_taker_volume_factor_permille == 250
order_size_portfolio_ratio_limit_e4 == 1667
anti_hysteresis_duration == 60
limit_order_min_expiration == 130
top_depth_tolerance == 0
SHADOW_MAKER_ORDER_KEEP_ALIVE_DURATION == 900
ORDER_ADJUST_SAMPLE_INTERVAL == 5
ORDER_ADJUST_SAMPLE_WINDOW == 12

\* a taker price that could not be computed (ZeroDivisionError / None)
Nil == [num |-> 0, den |-> 0]
\* None where the source returns a price or a size
None == -1
\* float("nan"): no expiry
NaN == -1

\* ------------------------------------------------------------- helpers
Min2(a, b) == IF a <= b THEN a ELSE b
Max2(a, b) == IF a >= b THEN a ELSE b
FloorDiv(a, b) == a \div b
CeilDiv(a, b) == -((-a) \div b)

RECURSIVE Gcd(_, _)
Gcd(a, b) == IF b = 0 THEN a ELSE Gcd(b, a % b)

\* the price num/den in lowest terms
Ratio(num, den) ==
  LET reduced(g) == [num |-> num \div g, den |-> den \div g]
  IN reduced(Gcd(num, den))

RECURSIVE SumSeq(_)
SumSeq(s) == IF s = <<>> THEN 0 ELSE Head(s) + SumSeq(Tail(s))

RECURSIVE SeqMax(_)
SeqMax(s) == IF Len(s) = 1 THEN s[1] ELSE Max2(Head(s), SeqMax(Tail(s)))

RECURSIVE SeqMin(_)
SeqMin(s) == IF Len(s) = 1 THEN s[1] ELSE Min2(Head(s), SeqMin(Tail(s)))


\* ------------------------------------------------------------ variables
VARIABLES
  current_timestamp,       \* StrategyBase._current_timestamp
  last_timestamp,          \* _last_timestamp
  ticks,                   \* number of clock ticks delivered so far
  markets_ready,           \* market.ready of every venue
  all_markets_ready,       \* _all_markets_ready
  next_order_id,           \* the next client order id a venue hands out
  orders,                  \* order id -> the order as the venue knows it
  tracked_maker_orders,    \* OrderTracker: ids of tracked maker limit orders
  tracked_taker_orders,    \* OrderTracker: ids of tracked taker market orders
  in_flight_cancels,       \* OrderTracker: ids with a cancel in flight
  market_pair_tracker,     \* OrderIDMarketPairTracker: id -> [pair, expiry]
  order_fill_buy_events,   \* _order_fill_buy_events
  order_fill_sell_events,  \* _order_fill_sell_events
  anti_hysteresis_timers,  \* _anti_hysteresis_timers
  suggested_price_samples, \* _suggested_price_samples
  taker_book,              \* name of the taker order book snapshot
  balances,                \* name of the wallet snapshot
  config,                  \* the arguments __init__ was called with
  hedges_since_tick,       \* taker orders submitted since the last tick, by pair and side
  account_balance,         \* PaperTradeMarket._account_balance, by trading pair
  queued_orders,           \* PaperTradeMarket._queued_orders
  last                     \* what the last handler did

vars == <<current_timestamp, last_timestamp, ticks, markets_ready,
          all_markets_ready, next_order_id, orders, tracked_maker_orders,
          tracked_taker_orders, in_flight_cancels, market_pair_tracker,
          order_fill_buy_events, order_fill_sell_events,
          anti_hysteresis_timers, suggested_price_samples, taker_book,
          balances, config, hedges_since_tick, account_balance, queued_orders,
          last>>

\* the dict comprehension of __init__: one entry per maker leg, at the
\* position of the leg's first occurrence, holding its last occurrence
market_pairs == config.market_pairs

market_pairs_values ==
  LET n == Len(market_pairs)
      firsts == {i \in 1..n : \A j \in 1..(i-1) : MakerLeg(market_pairs[j]) # MakerLeg(market_pairs[i])}
      lastOf(i) == CHOOSE j \in 1..n :
                      /\ MakerLeg(market_pairs[j]) = MakerLeg(market_pairs[i])
                      /\ \A k \in (j+1)..n : MakerLeg(market_pairs[k]) # MakerLeg(market_pairs[i])
      RECURSIVE build(_)
      build(i) == IF i > n THEN <<>>
                  ELSE IF i \in firsts THEN <<market_pairs[lastOf(i)]>> \o build(i+1)
                  ELSE build(i+1)
  IN build(1)

\* self._market_pairs.get((maker_market, symbol))
market_pairs_get(leg) ==
  LET n == Len(market_pairs_values)
      hits == {i \in 1..n : MakerLeg(market_pairs_values[i]) = leg}
  IN IF hits = {} THEN 0 ELSE market_pairs_values[CHOOSE i \in hits : TRUE]

\* ---------------------------------------------------------- environment
\* market snapshots: the order book of the taker leg (the taker legs of the
\* pairs show the same book), levels from the top.  In the snapshots
\* "high" and "edge" the market trades around 10000, where the maker venue's
\* price quantum changes.  In "spike" and "dip" the taker book is the normal
\* one and the top of the maker book has narrowed or widened.
BookNames == {"normal", "moved", "asklow", "tight", "thin",
              "bid1010", "bid1020", "bid1040", "bid1049", "bid1050",
              "high", "edge", "spike", "dip"}
Book(name) ==
  CASE name = "normal" -> [bids |-> <<[price |-> 995, amount |-> 15], [price |-> 990, amount |-> 40]>>,
                           asks |-> <<[price |-> 1005, amount |-> 15], [price |-> 1010, amount |-> 40]>>]
    [] name = "moved"  -> [bids |-> <<[price |-> 980, amount |-> 50]>>,
                           asks |-> <<[price |-> 990, amount |-> 50]>>]
    [] name = "asklow" -> [bids |-> <<[price |-> 995, amount |-> 15], [price |-> 990, amount |-> 40]>>,
                           asks |-> <<[price |-> 1001, amount |-> 50]>>]
    [] name = "tight"  -> [bids |-> <<[price |-> 999, amount |-> 50]>>,
                           asks |-> <<[price |-> 1001, amount |-> 50]>>]
    [] name = "fallen" -> [bids |-> <<[price |-> 975, amount |-> 50]>>,
                           asks |-> <<[price |-> 985, amount |-> 50]>>]
    [] name = "shallow" -> [bids |-> <<[price |-> 995, amount |-> 20]>>,
                            asks |-> <<[price |-> 1005, amount |-> 20]>>]
    [] name = "bid1010" -> [bids |-> <<[price |-> 1010, amount |-> 50]>>,
                            asks |-> <<[price |-> 1060, amount |-> 50]>>]
    [] name = "bid1020" -> [bids |-> <<[price |-> 1020, amount |-> 50]>>,
                            asks |-> <<[price |-> 1060, amount |-> 50]>>]
    [] name = "bid1040" -> [bids |-> <<[price |-> 1040, amount |-> 50]>>,
                            asks |-> <<[price |-> 1060, amount |-> 50]>>]
    [] name = "bid1049" -> [bids |-> <<[price |-> 1049, amount |-> 50]>>,
                            asks |-> <<[price |-> 1060, amount |-> 50]>>]
    [] name = "bid1050" -> [bids |-> <<[price |-> 1050, amount |-> 50]>>,
                            asks |-> <<[price |-> 1060, amount |-> 50]>>]
    [] name \in {"spike", "dip"}
                       -> [bids |-> <<[price |-> 995, amount |-> 15], [price |-> 990, amount |-> 40]>>,
                           asks |-> <<[price |-> 1005, amount |-> 15], [price |-> 1010, amount |-> 40]>>]
    [] name = "high"   -> [bids |-> <<[price |-> 10150, amount |-> 15], [price |-> 10100, amount |-> 40]>>,
                           asks |-> <<[price |-> 10200, amount |-> 15], [price |-> 10300, amount |-> 40]>>]
    [] name = "edge"   -> [bids |-> <<[price |-> 10101, amount |-> 50]>>,
                           asks |-> <<[price |-> 9900, amount |-> 5], [price |-> 9905, amount |-> 50]>>]
    [] OTHER           -> [bids |-> <<[price |-> 995, amount |-> 1]>>,
                           asks |-> <<[price |-> 1005, amount |-> 1]>>]

\* top of the maker order book (bid, ask) in a market snapshot
maker_top(env, p) ==
  IF env.taker_book \in {"high", "edge"} THEN [bid |-> 10005, ask |-> 10035]
  ELSE IF env.taker_book = "spike" THEN [bid |-> 1004, ask |-> 1006]
  ELSE IF env.taker_book = "dip" THEN [bid |-> 996, ask |-> 1014]
  ELSE [bid |-> 1000, ask |-> 1010]

\* wallet snapshots: balances of the pair's four (venue, asset) accounts.
\* The maker account of maker leg 1 holds quote only (it can bid), the maker
\* account of maker leg 2 holds base only (it can ask); the taker accounts
\* hold the same amounts for every pair.
\* In the snapshot "both" the maker accounts hold both assets.
BalanceNames == {"rich", "both", "poor", "none"}
Balance(name, p) ==
  LET mb == IF MakerLeg(p) = 1 THEN 0 ELSE 50
      mq == IF MakerLeg(p) = 1 THEN 50000 ELSE 0
  IN CASE name = "rich" -> [maker_base |-> mb, maker_quote |-> mq, taker_base |-> 50, taker_quote |-> 50000]
       [] name = "both" -> [maker_base |-> 50, maker_quote |-> 50000, taker_base |-> 50, taker_quote |-> 50000]
       [] name = "poor" -> [maker_base |-> mb, maker_quote |-> mq, taker_base |-> 5, taker_quote |-> 5000]
       [] name = "lean" -> [maker_base |-> 12, maker_quote |-> 12000, taker_base |-> 50, taker_quote |-> 50000]
       [] name = "short" -> [maker_base |-> 50, maker_quote |-> 50000, taker_base |-> 50, taker_quote |-> 5060]
       [] OTHER         -> [maker_base |-> mb, maker_quote |-> mq, taker_base |-> 0, taker_quote |-> 0]

\* ---------------------------------------------------------------- venue
\* PaperTradeMarket.c_quantize_order_amount: floor to the size quantum
c_quantize_order_amount(num, den) == IF num <= 0 THEN 0 ELSE FloorDiv(num, den)

\* PaperTradeMarket.c_get_order_price_quantum of the price num/den, with
\* price_decimals of one tick and a price_precision that gives one tick up
\* to 10000: max(10^(ceil(log10(price)) - price_precision), one tick) is one
\* tick for prices up to 10000 and ten ticks above (prices stay below 100000)
c_get_order_price_quantum(num, den) == IF CeilDiv(num, den) > 10000 THEN 10 ELSE 1

c_get_balance(env, p, account) == Balance(env.balances, p)[account]

\* PaperTradeMarket.on_hold_balances over the resting limit orders
on_hold_balances(ords, p, account) ==
  LET RECURSIVE held(_)
      held(S) ==
        IF S = {} THEN 0
        ELSE LET with(i) == (IF ords[i].is_buy THEN ords[i].quantity * ords[i].price
                                               ELSE ords[i].quantity) + held(S \ {i})
             IN with(CHOOSE x \in S : TRUE)
  IN IF account \in {"maker_quote", "maker_base"}
     THEN held({i \in DOMAIN ords : /\ MakerLeg(ords[i].pair) = MakerLeg(p)
                                    /\ ords[i].type = "LIMIT"
                                    /\ ords[i].venue = "open"
                                    /\ ords[i].is_buy = (account = "maker_quote")})
     ELSE 0

\* PaperTradeMarket.c_get_available_balance
c_get_available_balance(env, ords, p, account) ==
  c_get_balance(env, p, account) - on_hold_balances(ords, p, account)

\* ----------------------------------------------------------- order book
BookSide(env, p, is_buy) == IF is_buy THEN Book(env.taker_book).asks ELSE Book(env.taker_book).bids

Depth(levels) == SumSeq([i \in 1..Len(levels) |-> levels[i].amount])

RECURSIVE CostOf(_, _)
CostOf(levels, volume) ==
  IF volume <= 0 \/ levels = <<>> THEN 0
  ELSE IF Head(levels).amount >= volume THEN volume * Head(levels).price
  ELSE Head(levels).amount * Head(levels).price + CostOf(Tail(levels), volume - Head(levels).amount)

\* OrderBook.c_get_vwap_for_volume(is_buy, volume).result_price, Nil when
\* it raises ZeroDivisionError (nothing to divide by: no volume obtainable)
c_get_vwap_for_volume(env, p, is_buy, volume) ==
  LET vwap(levels) == IF volume <= 0 \/ Depth(levels) < volume THEN Nil
                      ELSE Ratio(CostOf(levels, volume), volume)
  IN vwap(BookSide(env, p, is_buy))

\* OrderBook.c_get_price(is_buy): the top quote of the side
c_get_price(env, p, is_buy) ==
  LET top(levels) == IF levels = <<>> THEN 0 ELSE levels[1].price
  IN top(BookSide(env, p, is_buy))

RECURSIVE LevelFor(_, _)
LevelFor(levels, volume) ==
  IF Head(levels).amount >= volume \/ Len(levels) = 1 THEN Head(levels).price
  ELSE LevelFor(Tail(levels), volume - Head(levels).amount)

\* OrderBook.c_get_price_for_volume(is_buy, volume).result_price, None when
\* the side cannot supply the volume
c_get_price_for_volume(env, p, is_buy, volume) ==
  LET level(levels) == IF Depth(levels) < volume THEN None ELSE LevelFor(levels, volume)
  IN level(BookSide(env, p, is_buy))

\* -------------------------------------------------------- price sampler
c_get_suggested_price_samples(p) == suggested_price_samples[p]

c_get_top_bid_ask(env, p) == maker_top(env, p)

\* a smoothing that returns the latest sample
c_get_top_bid_ask_from_price_samples_latest(env, p) ==
  LET top(cur, smp) == [bid |-> (smp.bids \o <<cur.bid>>)[1 + Len(smp.bids) - (IF smp.bids = <<>> THEN 0 ELSE 1)],
                        ask |-> (smp.asks \o <<cur.ask>>)[1 + Len(smp.asks) - (IF smp.asks = <<>> THEN 0 ELSE 1)]]
  IN top(c_get_top_bid_ask(env, p), c_get_suggested_price_samples(p))

c_get_top_bid_ask_from_price_samples(env, p) ==
  LET top(cur, smp) == [bid |-> SeqMax(smp.bids \o <<cur.bid>>),
                        ask |-> SeqMin(smp.asks \o <<cur.ask>>)]
  IN top(c_get_top_bid_ask(env, p), c_get_suggested_price_samples(p))

\* deque.popleft() while the deque is longer than the window
RECURSIVE Trimmed(_)
Trimmed(q) == IF Len(q) > ORDER_ADJUST_SAMPLE_WINDOW THEN Trimmed(Tail(q)) ELSE q

\* the sampler is due: the clock has entered a new sample interval
SampleIsDue(last_ts, now) ==
  (last_ts \div ORDER_ADJUST_SAMPLE_INTERVAL) < (now \div ORDER_ADJUST_SAMPLE_INTERVAL)

\* a sampler that never evicts
c_take_suggested_price_sample_unbounded(env, p, last_ts, now) ==
  LET appended(smp, top) == [bids |-> Append(smp.bids, top.bid),
                             asks |-> Append(smp.asks, top.ask)]
  IN IF SampleIsDue(last_ts, now)
     THEN appended(c_get_suggested_price_samples(p), c_get_top_bid_ask_from_price_samples(env, p))
     ELSE c_get_suggested_price_samples(p)

\* the sample queues of the pair after c_take_suggested_price_sample, called
\* with _last_timestamp = last_ts and _current_timestamp = now: the top it
\* appends is the smoothed one
c_take_suggested_price_sample(env, p, last_ts, now) ==
  LET appended(smp, top) == [bids |-> Trimmed(Append(smp.bids, top.bid)),
                             asks |-> Trimmed(Append(smp.asks, top.ask))]
  IN IF SampleIsDue(last_ts, now)
     THEN appended(c_get_suggested_price_samples(p), c_get_top_bid_ask_from_price_samples(env, p))
     ELSE c_get_suggested_price_samples(p)

\* ---------------------------------------------------------------- pricer
\* taker VWAP on the hedging side, converted to the maker's quote asset
c_calculate_effective_hedging_price(env, p, is_bid, size) ==
  LET converted(taker_price) ==
        IF taker_price = Nil THEN Nil
        ELSE IF QuoteAssetsDiffer(p)
             THEN Ratio(taker_price.num * FxNum, taker_price.den * FxDen)
             ELSE taker_price
  IN converted(c_get_vwap_for_volume(env, p, ~is_bid, size))

\* a pricer that rounds a bid up to the quantum
c_get_market_making_price_rounds_up(env, p, is_bid, size) ==
  LET lower(a, b) == a.num * b.den < b.num * a.den
      whole(n) == [num |-> n, den |-> 1]
      rounded_down(r, q) == FloorDiv(r.num, r.den * q) * q
      rounded_up(r, q) == CeilDiv(r.num, r.den * q) * q
      floored(r) == rounded_up(r, c_get_order_price_quantum(r.num, r.den))
      ceiled(r) == rounded_up(r, c_get_order_price_quantum(r.num, r.den))
      price_above_bid(top_bid_price, price_quantum) ==
        whole((CeilDiv(top_bid_price, price_quantum) + 1) * price_quantum)
      next_price_below_top_ask(top_ask_price, price_quantum) ==
        whole((FloorDiv(top_ask_price, price_quantum) - 1) * price_quantum)
      bid_price(maker_price, above) ==
        floored(IF config.adjust_order_enabled /\ lower(above, maker_price)
                THEN above ELSE maker_price)
      ask_price(maker_price, below) ==
        ceiled(IF config.adjust_order_enabled /\ lower(maker_price, below)
               THEN below ELSE maker_price)
      price(top, taker_price) ==
        IF taker_price = Nil THEN None
        ELSE IF is_bid
        THEN bid_price(Ratio(taker_price.num * 100,
                             taker_price.den * (100 + min_profitability_pct)),
                       price_above_bid(top.bid, c_get_order_price_quantum(top.bid, 1)))
        ELSE ask_price(Ratio(taker_price.num * (100 + min_profitability_pct),
                             taker_price.den * 100),
                       next_price_below_top_ask(top.ask, c_get_order_price_quantum(top.ask, 1)))
  IN price(c_get_top_bid_ask_from_price_samples(env, p),
           c_calculate_effective_hedging_price(env, p, is_bid, size))

\* the maker price num/den is min(taker/(1 + min_profitability), price above
\* the top bid) for a bid, floored to the quantum at that price; the mirror
\* image with max and ceil for an ask; None without a taker price
c_get_market_making_price(env, p, is_bid, size) ==
  LET lower(a, b) == a.num * b.den < b.num * a.den
      whole(n) == [num |-> n, den |-> 1]
      rounded_down(r, q) == FloorDiv(r.num, r.den * q) * q
      rounded_up(r, q) == CeilDiv(r.num, r.den * q) * q
      floored(r) == rounded_down(r, c_get_order_price_quantum(r.num, r.den))
      ceiled(r) == rounded_up(r, c_get_order_price_quantum(r.num, r.den))
      price_above_bid(top_bid_price, price_quantum) ==
        whole((CeilDiv(top_bid_price, price_quantum) + 1) * price_quantum)
      next_price_below_top_ask(top_ask_price, price_quantum) ==
        whole((FloorDiv(top_ask_price, price_quantum) - 1) * price_quantum)
      bid_price(maker_price, above) ==
        floored(IF config.adjust_order_enabled /\ lower(above, maker_price)
                THEN above ELSE maker_price)
      ask_price(maker_price, below) ==
        ceiled(IF config.adjust_order_enabled /\ lower(maker_price, below)
               THEN below ELSE maker_price)
      price(top, taker_price) ==
        IF taker_price = Nil THEN None
        ELSE IF is_bid
        THEN bid_price(Ratio(taker_price.num * 100,
                             taker_price.den * (100 + min_profitability_pct)),
                       price_above_bid(top.bid, c_get_order_price_quantum(top.bid, 1)))
        ELSE ask_price(Ratio(taker_price.num * (100 + min_profitability_pct),
                             taker_price.den * 100),
                       next_price_below_top_ask(top.ask, c_get_order_price_quantum(top.ask, 1)))
  IN price(c_get_top_bid_ask_from_price_samples(env, p),
           c_calculate_effective_hedging_price(env, p, is_bid, size))

\* ----------------------------------------------------------------- sizer
c_get_order_size_after_portfolio_ratio_limit(env, p) ==
  LET limited(base_balance, quote_balance, twice_price) ==
        c_quantize_order_amount((base_balance * twice_price + 2 * quote_balance) * order_size_portfolio_ratio_limit_e4,
                                twice_price * 10000)
  IN limited(c_get_balance(env, p, "maker_base"), c_get_balance(env, p, "maker_quote"),
             maker_top(env, p).ask + maker_top(env, p).bid)

c_get_adjusted_limit_order_size(env, p) ==
  IF config.order_amount > 0 THEN c_quantize_order_amount(config.order_amount, 1)
  ELSE c_get_order_size_after_portfolio_ratio_limit(env, p)

\* a sizer that leaves the taker balance out
c_get_market_making_size_unhedgeable(env, ords, p, is_bid) ==
  LET f == config.order_size_taker_balance_factor_permille
      bid_size(user_order, taker_price, maker_balance_in_quote, taker_balance) ==
        Min2(c_quantize_order_amount(maker_balance_in_quote * taker_price.den, taker_price.num),
             user_order)
      ask_size(user_order, taker_price, maker_balance, taker_balance_in_quote) ==
        Min2(c_quantize_order_amount(maker_balance, 1),
             user_order)
      capped(user_order, taker_price) ==
        IF taker_price.num = 0 THEN None
        ELSE IF is_bid
        THEN bid_size(user_order, taker_price,
                      c_get_available_balance(env, ords, p, "maker_quote"),
                      c_get_available_balance(env, ords, p, "taker_base"))
        ELSE ask_size(user_order, taker_price,
                      c_get_available_balance(env, ords, p, "maker_base"),
                      c_get_available_balance(env, ords, p, "taker_quote"))
      fallback(vwap) == IF vwap = Nil THEN [num |-> c_get_price(env, p, TRUE), den |-> 1] ELSE vwap
      sized(user_order) == capped(user_order, fallback(c_get_vwap_for_volume(env, p, ~is_bid, user_order)))
  IN sized(c_get_adjusted_limit_order_size(env, p))

\* the size, or None when the division by the taker price raises
c_get_market_making_size(env, ords, p, is_bid) ==
  LET f == config.order_size_taker_balance_factor_permille
      bid_size(user_order, taker_price, maker_balance_in_quote, taker_balance) ==
        Min2(c_quantize_order_amount(maker_balance_in_quote * taker_price.den, taker_price.num),
             Min2(c_quantize_order_amount(taker_balance * f, 1000), user_order))
      ask_size(user_order, taker_price, maker_balance, taker_balance_in_quote) ==
        Min2(c_quantize_order_amount(maker_balance, 1),
             Min2(c_quantize_order_amount(taker_balance_in_quote * f * taker_price.den, 1000 * taker_price.num),
                  user_order))
      capped(user_order, taker_price) ==
        IF taker_price.num = 0 THEN None
        ELSE IF is_bid
        THEN bid_size(user_order, taker_price,
                      c_get_available_balance(env, ords, p, "maker_quote"),
                      c_get_available_balance(env, ords, p, "taker_base"))
        ELSE ask_size(user_order, taker_price,
                      c_get_available_balance(env, ords, p, "maker_base"),
                      c_get_available_balance(env, ords, p, "taker_quote"))
      fallback(vwap) == IF vwap = Nil THEN [num |-> c_get_price(env, p, TRUE), den |-> 1] ELSE vwap
      sized(user_order) == capped(user_order, fallback(c_get_vwap_for_volume(env, p, ~is_bid, user_order)))
  IN sized(c_get_adjusted_limit_order_size(env, p))

\* ------------------------------------------------------ order supervisor
\* a supervisor that keeps an order it has no hedging price for
c_check_if_still_profitable_keeps_unpriced(o, current_hedging_price) ==
  LET cancel_order_threshold == IF ~config.active_order_canceling
                                THEN config.cancel_order_threshold_pct
                                ELSE min_profitability_pct
      h == current_hedging_price
  IN IF h = Nil THEN TRUE
     ELSE IF o.is_buy
     THEN ~(h.num * 100 < o.price * (100 + cancel_order_threshold) * h.den)
     ELSE ~(o.price * 100 * h.den < h.num * (100 + cancel_order_threshold))

\* a supervisor that applies min_profitability with passive cancelling too
c_check_if_still_profitable_min_profitability(o, current_hedging_price) ==
  LET cancel_order_threshold == min_profitability_pct
      h == current_hedging_price
  IN IF h = Nil THEN FALSE
     ELSE IF o.is_buy
     THEN ~(h.num * 100 < o.price * (100 + cancel_order_threshold) * h.den)
     ELSE ~(o.price * 100 * h.den < h.num * (100 + cancel_order_threshold))

\* a supervisor that never cancels for profitability
c_check_if_still_profitable_never(o, current_hedging_price) == TRUE

\* TRUE: the order stays; FALSE: it is cancelled
c_check_if_still_profitable(o, current_hedging_price) ==
  LET cancel_order_threshold == IF ~config.active_order_canceling
                                THEN config.cancel_order_threshold_pct
                                ELSE min_profitability_pct
      h == current_hedging_price
  IN IF h = Nil THEN FALSE
     ELSE IF o.is_buy
     THEN ~(h.num * 100 < o.price * (100 + cancel_order_threshold) * h.den)
     ELSE ~(o.price * 100 * h.den < h.num * (100 + cancel_order_threshold))

\* a balance test that also cancels an order of exactly the size limit
c_check_if_sufficient_balance_strict(env, p, o) ==
  LET enough(quote_asset_amount, base_asset_amount) ==
        ~(o.quantity >= Min2(c_quantize_order_amount(base_asset_amount, 1),
                             c_quantize_order_amount(quote_asset_amount, o.price)))
  IN IF o.is_buy
     THEN enough(c_get_balance(env, p, "maker_quote"), c_get_balance(env, p, "taker_base"))
     ELSE enough(c_get_balance(env, p, "taker_quote"), c_get_balance(env, p, "maker_base"))

c_check_if_sufficient_balance(env, p, o) ==
  LET enough(quote_asset_amount, base_asset_amount) ==
        ~(o.quantity > Min2(c_quantize_order_amount(base_asset_amount, 1),
                            c_quantize_order_amount(quote_asset_amount, o.price)))
  IN IF o.is_buy
     THEN enough(c_get_balance(env, p, "maker_quote"), c_get_balance(env, p, "taker_base"))
     ELSE enough(c_get_balance(env, p, "taker_quote"), c_get_balance(env, p, "maker_base"))

\* "keep", "cancel", or "raise" when float() is applied to a None price
c_check_if_price_has_drifted(env, p, o) ==
  LET compared(suggested_price) ==
        IF suggested_price = None THEN "raise"
        ELSE IF suggested_price # o.price THEN "cancel" ELSE "keep"
  IN compared(c_get_market_making_price(env, p, o.is_buy, o.quantity))

\* ------------------------------------------ creating and cancelling orders
\* The handlers below thread a record st through the calls they make:
\*   orders, tm, tt, ifc, mpt, timers, next_id   the state being updated
\*   raised                                       an exception is propagating
\*   evaluated, cancels, placed, processed        what the handler did so far

\* StrategyBase.c_buy/c_sell_with_specific_market followed by
\* OrderIDMarketPairTracker.c_start_tracking_order_id; the venue's c_buy or
\* c_sell raises when it rejects the order
start_order_unregistered(st, p, is_buy, amount, order_type, price, rejected) ==
  IF rejected THEN [st EXCEPT !.raised = TRUE]
  ELSE [st EXCEPT !.orders = (st.next_id :>
                                [pair |-> p, is_buy |-> is_buy, type |-> order_type,
                                 price |-> price, quantity |-> amount, filled |-> 0,
                                 venue |-> "open", closed |-> NaN,
                                 expiration |-> IF ~config.active_order_canceling
                                                THEN limit_order_min_expiration ELSE NaN]) @@ @,
                  !.next_id = @ + 1,
                  !.tm = IF order_type = "LIMIT" THEN @ \cup {st.next_id} ELSE @,
                  !.tt = IF order_type = "MARKET" THEN @ \cup {st.next_id} ELSE @,
                  !.placed = @ \cup {st.next_id}]

start_order(st, p, is_buy, amount, order_type, price, rejected) ==
  IF rejected THEN [st EXCEPT !.raised = TRUE]
  ELSE [st EXCEPT !.orders = (st.next_id :>
                                [pair |-> p, is_buy |-> is_buy, type |-> order_type,
                                 price |-> price, quantity |-> amount, filled |-> 0,
                                 venue |-> "open", closed |-> NaN,
                                 expiration |-> IF ~config.active_order_canceling
                                                THEN limit_order_min_expiration ELSE NaN]) @@ @,
                  !.next_id = @ + 1,
                  !.tm = IF order_type = "LIMIT" THEN @ \cup {st.next_id} ELSE @,
                  !.tt = IF order_type = "MARKET" THEN @ \cup {st.next_id} ELSE @,
                  !.mpt = (st.next_id :> [pair |-> p, expiry |-> NaN]) @@ @,
                  !.placed = @ \cup {st.next_id}]

c_buy_with_specific_market(st, p, amount, order_type, price, rejected) ==
  start_order(st, p, TRUE, amount, order_type, price, rejected)

c_sell_with_specific_market(st, p, amount, order_type, price, rejected) ==
  start_order(st, p, FALSE, amount, order_type, price, rejected)

\* StrategyBase.c_cancel_order: request the cancel, remember it is in flight
c_cancel_order(st, id, reason) ==
  [st EXCEPT !.ifc = @ \cup {id},
             !.cancels = @ \cup {[id |-> id, reason |-> reason]}]

\* ---------------------------------------------------------- strategy core
RECURSIVE SortedSeq(_)
SortedSeq(S) ==
  IF S = {} THEN <<>>
  ELSE LET from(m) == <<m>> \o SortedSeq(S \ {m})
       IN from(CHOOSE x \in S : \A y \in S : x <= y)

\* variant: the drift check runs at every tick
supervise_order_no_hysteresis(env, st, p, id, now, flags) ==
  LET drifted(o, st1, flags1, drift) ==
        IF drift = "raise" THEN [st |-> [st1 EXCEPT !.raised = TRUE], flags |-> flags1]
        ELSE IF drift = "cancel"
        THEN [st |-> c_cancel_order(st1, id, "drift"),
              flags |-> [flags1 EXCEPT !.need_adjust_order = TRUE]]
        ELSE [st |-> st1, flags |-> flags1]
      checked(o, st1, flags1) ==
        IF ~c_check_if_still_profitable(o, c_calculate_effective_hedging_price(env, p, o.is_buy, o.quantity))
        THEN [st |-> c_cancel_order(st1, id, "profit"), flags |-> flags1]
        ELSE IF ~config.active_order_canceling
        THEN [st |-> st1, flags |-> flags1]
        ELSE IF ~c_check_if_sufficient_balance(env, p, o)
        THEN [st |-> c_cancel_order(st1, id, "balance"), flags |-> flags1]
        ELSE IF TRUE
        THEN drifted(o, st1, flags1, c_check_if_price_has_drifted(env, p, o))
        ELSE [st |-> st1, flags |-> flags1]
  IN checked(st.orders[id],
             [st EXCEPT !.evaluated = @ \cup {id}],
             [flags EXCEPT !.has_active_bid = @ \/ st.orders[id].is_buy,
                           !.has_active_ask = @ \/ ~st.orders[id].is_buy])

\* variant: the balance and drift checks run with passive cancelling too
supervise_order_always_active(env, st, p, id, now, flags) ==
  LET drifted(o, st1, flags1, drift) ==
        IF drift = "raise" THEN [st |-> [st1 EXCEPT !.raised = TRUE], flags |-> flags1]
        ELSE IF drift = "cancel"
        THEN [st |-> c_cancel_order(st1, id, "drift"),
              flags |-> [flags1 EXCEPT !.need_adjust_order = TRUE]]
        ELSE [st |-> st1, flags |-> flags1]
      checked(o, st1, flags1) ==
        IF ~c_check_if_still_profitable(o, c_calculate_effective_hedging_price(env, p, o.is_buy, o.quantity))
        THEN [st |-> c_cancel_order(st1, id, "profit"), flags |-> flags1]
        ELSE IF ~c_check_if_sufficient_balance(env, p, o)
        THEN [st |-> c_cancel_order(st1, id, "balance"), flags |-> flags1]
        ELSE IF now > flags.anti_hysteresis_timer
        THEN drifted(o, st1, flags1, c_check_if_price_has_drifted(env, p, o))
        ELSE [st |-> st1, flags |-> flags1]
  IN checked(st.orders[id],
             [st EXCEPT !.evaluated = @ \cup {id}],
             [flags EXCEPT !.has_active_bid = @ \/ st.orders[id].is_buy,
                           !.has_active_ask = @ \/ ~st.orders[id].is_buy])

\* one pass of the loop over the pair's active orders: the profitability,
\* balance and drift checks of one order
\* a supervisor that goes on to the balance check after a profitability cancel
supervise_order_checks_on(env, st, p, id, now, flags) ==
  LET drifted(o, st1, flags1, drift) ==
        IF drift = "raise" THEN [st |-> [st1 EXCEPT !.raised = TRUE], flags |-> flags1]
        ELSE IF drift = "cancel"
        THEN [st |-> c_cancel_order(st1, id, "drift"),
              flags |-> [flags1 EXCEPT !.need_adjust_order = TRUE]]
        ELSE [st |-> st1, flags |-> flags1]
      balanced(o, st1, flags1) ==
        IF ~config.active_order_canceling
        THEN [st |-> st1, flags |-> flags1]
        ELSE IF ~c_check_if_sufficient_balance(env, p, o)
        THEN [st |-> c_cancel_order(st1, id, "balance"), flags |-> flags1]
        ELSE IF now > flags.anti_hysteresis_timer
        THEN drifted(o, st1, flags1, c_check_if_price_has_drifted(env, p, o))
        ELSE [st |-> st1, flags |-> flags1]
      checked(o, st1, flags1) ==
        IF ~c_check_if_still_profitable(o, c_calculate_effective_hedging_price(env, p, o.is_buy, o.quantity))
        THEN balanced(o, c_cancel_order(st1, id, "profit"), flags1)
        ELSE balanced(o, st1, flags1)
  IN checked(st.orders[id],
             [st EXCEPT !.evaluated = @ \cup {id}],
             [flags EXCEPT !.has_active_bid = @ \/ st.orders[id].is_buy,
                           !.has_active_ask = @ \/ ~st.orders[id].is_buy])

\* a supervisor that counts an order as active only if it leaves it standing
supervise_order_forgets_cancelled(env, st, p, id, now, flags) ==
  LET drifted(o, st1, flags1, drift) ==
        IF drift = "raise" THEN [st |-> [st1 EXCEPT !.raised = TRUE], flags |-> flags1]
        ELSE IF drift = "cancel"
        THEN [st |-> c_cancel_order(st1, id, "drift"),
              flags |-> [flags EXCEPT !.need_adjust_order = TRUE]]
        ELSE [st |-> st1, flags |-> flags1]
      checked(o, st1, flags1) ==
        IF ~c_check_if_still_profitable(o, c_calculate_effective_hedging_price(env, p, o.is_buy, o.quantity))
        THEN [st |-> c_cancel_order(st1, id, "profit"), flags |-> flags]
        ELSE IF ~config.active_order_canceling
        THEN [st |-> st1, flags |-> flags1]
        ELSE IF ~c_check_if_sufficient_balance(env, p, o)
        THEN [st |-> c_cancel_order(st1, id, "balance"), flags |-> flags]
        ELSE IF now > flags.anti_hysteresis_timer
        THEN drifted(o, st1, flags1, c_check_if_price_has_drifted(env, p, o))
        ELSE [st |-> st1, flags |-> flags1]
  IN checked(st.orders[id],
             [st EXCEPT !.evaluated = @ \cup {id}],
             [flags EXCEPT !.has_active_bid = @ \/ st.orders[id].is_buy,
                           !.has_active_ask = @ \/ ~st.orders[id].is_buy])

supervise_order(env, st, p, id, now, flags) ==
  LET drifted(o, st1, flags1, drift) ==
        IF drift = "raise" THEN [st |-> [st1 EXCEPT !.raised = TRUE], flags |-> flags1]
        ELSE IF drift = "cancel"
        THEN [st |-> c_cancel_order(st1, id, "drift"),
              flags |-> [flags1 EXCEPT !.need_adjust_order = TRUE]]
        ELSE [st |-> st1, flags |-> flags1]
      checked(o, st1, flags1) ==
        IF ~c_check_if_still_profitable(o, c_calculate_effective_hedging_price(env, p, o.is_buy, o.quantity))
        THEN [st |-> c_cancel_order(st1, id, "profit"), flags |-> flags1]
        ELSE IF ~config.active_order_canceling
        THEN [st |-> st1, flags |-> flags1]
        ELSE IF ~c_check_if_sufficient_balance(env, p, o)
        THEN [st |-> c_cancel_order(st1, id, "balance"), flags |-> flags1]
        ELSE IF now > flags.anti_hysteresis_timer
        THEN drifted(o, st1, flags1, c_check_if_price_has_drifted(env, p, o))
        ELSE [st |-> st1, flags |-> flags1]
  IN checked(st.orders[id],
             [st EXCEPT !.evaluated = @ \cup {id}],
             [flags EXCEPT !.has_active_bid = @ \/ st.orders[id].is_buy,
                           !.has_active_ask = @ \/ ~st.orders[id].is_buy])

\* the loop over the pair's active orders
RECURSIVE supervise_orders(_, _, _, _, _, _)
supervise_orders(env, st, p, ids, now, flags) ==
  IF ids = <<>> \/ st.raised THEN [st |-> st, flags |-> flags]
  ELSE LET rest(r) == supervise_orders(env, r.st, p, Tail(ids), now, r.flags)
       IN rest(supervise_order(env, st, p, Head(ids), now, flags))

\* variant: only the bid side is ever created
c_check_and_create_new_orders_bid_only(env, st, p, has_active_bid, has_active_ask, rejected) ==
  LET bid_priced(bid_size, bid_price) ==
        IF bid_size > 0 /\ bid_price # None
        THEN c_buy_with_specific_market(st, p, bid_size, "LIMIT", bid_price, rejected)
        ELSE st
      bid(bid_size) ==
        IF bid_size = None THEN [st EXCEPT !.raised = TRUE]
        ELSE bid_priced(bid_size, c_get_market_making_price(env, p, TRUE, bid_size))
      ask_priced(st1, ask_size, ask_price) ==
        IF ask_size > 0 /\ ask_price # None
        THEN c_sell_with_specific_market(st1, p, ask_size, "LIMIT", ask_price, rejected)
        ELSE st1
      ask_sized(st1, ask_size) ==
        IF ask_size = None THEN [st1 EXCEPT !.raised = TRUE]
        ELSE ask_priced(st1, ask_size, c_get_market_making_price(env, p, FALSE, ask_size))
      ask(st1) ==
        IF TRUE THEN st1
        ELSE ask_sized(st1, c_get_market_making_size(env, st1.orders, p, FALSE))
  IN ask(IF has_active_bid THEN st ELSE bid(c_get_market_making_size(env, st.orders, p, TRUE)))

c_check_and_create_new_orders(env, st, p, has_active_bid, has_active_ask, rejected) ==
  LET bid_priced(bid_size, bid_price) ==
        IF bid_size > 0 /\ bid_price # None
        THEN c_buy_with_specific_market(st, p, bid_size, "LIMIT", bid_price, rejected)
        ELSE st
      bid(bid_size) ==
        IF bid_size = None THEN [st EXCEPT !.raised = TRUE]
        ELSE bid_priced(bid_size, c_get_market_making_price(env, p, TRUE, bid_size))
      ask_priced(st1, ask_size, ask_price) ==
        IF ask_size > 0 /\ ask_price # None
        THEN c_sell_with_specific_market(st1, p, ask_size, "LIMIT", ask_price, rejected)
        ELSE st1
      ask_sized(st1, ask_size) ==
        IF ask_size = None THEN [st1 EXCEPT !.raised = TRUE]
        ELSE ask_priced(st1, ask_size, c_get_market_making_price(env, p, FALSE, ask_size))
      ask(st1) ==
        IF st1.raised \/ has_active_ask THEN st1
        ELSE ask_sized(st1, c_get_market_making_size(env, st1.orders, p, FALSE))
  IN ask(IF has_active_bid THEN st ELSE bid(c_get_market_making_size(env, st.orders, p, TRUE)))

\* the order tracker files a taker order under the market symbol pair it was
\* submitted with, market_pair.taker
c_get_taker_orders(st) ==
  [k \in {TakerLeg(st.orders[i].pair) : i \in st.tt} |->
     {i \in st.tt : TakerLeg(st.orders[i].pair) = k}]

\* dict.get(key, default)
get(d, key, default) == IF key \in DOMAIN d THEN d[key] ELSE default

\* variant: a drift cancel resets the timer
c_process_market_pair_no_timer(env, st, p, active_orders, now, rejected) ==
  LET create(flags, st2) ==
        IF st2.raised THEN st2
        ELSE IF flags.has_active_bid /\ flags.has_active_ask THEN st2
        ELSE IF Cardinality(get(c_get_taker_orders(st), p, {})) > 0 THEN st2
        ELSE c_check_and_create_new_orders(env, st2, p, flags.has_active_bid, flags.has_active_ask, rejected)
      supervised(r) ==
        create(r.flags,
               IF r.flags.need_adjust_order /\ ~r.st.raised
               THEN [r.st EXCEPT !.timers[p] = 0]
               ELSE r.st)
  IN supervised(supervise_orders(env, [st EXCEPT !.processed = Append(@, p)], p, active_orders, now,
                                 [has_active_bid |-> FALSE, has_active_ask |-> FALSE,
                                  need_adjust_order |-> FALSE,
                                  anti_hysteresis_timer |-> st.timers[p]]))

c_process_market_pair(env, st, p, active_orders, now, rejected) ==
  LET create(flags, st2) ==
        IF st2.raised THEN st2
        ELSE IF flags.has_active_bid /\ flags.has_active_ask THEN st2
        ELSE IF Cardinality(get(c_get_taker_orders(st), p, {})) > 0 THEN st2
        ELSE c_check_and_create_new_orders(env, st2, p, flags.has_active_bid, flags.has_active_ask, rejected)
      supervised(r) ==
        create(r.flags,
               IF r.flags.need_adjust_order /\ ~r.st.raised
               THEN [r.st EXCEPT !.timers[p] = now + anti_hysteresis_duration]
               ELSE r.st)
  IN supervised(supervise_orders(env, [st EXCEPT !.processed = Append(@, p)], p, active_orders, now,
                                 [has_active_bid |-> FALSE, has_active_ask |-> FALSE,
                                  need_adjust_order |-> FALSE,
                                  anti_hysteresis_timer |-> st.timers[p]]))

\* the loop of c_tick over self._market_pairs.values(); an exception leaves it
RECURSIVE process_market_pairs(_, _, _, _, _, _)
process_market_pairs(env, st, ps, buckets, now, rejected) ==
  IF ps = <<>> \/ st.raised THEN st
  ELSE process_market_pairs(env,
         c_process_market_pair(env, st, Head(ps), buckets[Head(ps)], now, MakerLeg(Head(ps)) \in rejected),
         Tail(ps), buckets, now, rejected)

\* OrderIDMarketPairTracker.c_tick: drop the ids whose keep-alive has run out
market_pair_tracker_c_tick(mpt, now) ==
  [i \in {j \in DOMAIN mpt : mpt[j].expiry = NaN \/ ~(mpt[j].expiry < now)} |-> mpt[i]]

\* OrderIDMarketPairTracker.c_get_market_pair_from_order_id, 0 for None
c_get_market_pair_from_order_id(mpt, order_id) ==
  IF order_id \in DOMAIN mpt THEN mpt[order_id].pair ELSE 0

\* OrderIDMarketPairTracker.c_stop_tracking_order_id
c_stop_tracking_order_id(mpt, order_id, now) ==
  IF order_id \in DOMAIN mpt
  THEN [mpt EXCEPT ![order_id].expiry = now + SHADOW_MAKER_ORDER_KEEP_ALIVE_DURATION]
  ELSE mpt

\* ------------------------------------------------------------ fill hedger
\* variant: the whole bucket is hedged whatever the taker wallet holds
c_check_and_hedge_orders_uncapped(env, st, p, rejected) ==
  LET sold(s) == IF s.raised THEN s ELSE [s EXCEPT !.buy_events[p] = <<>>]
      bought(s) == IF s.raised THEN s ELSE [s EXCEPT !.sell_events[p] = <<>>]
      sell_hedged(st1, quantized_hedge_amount) ==
        IF quantized_hedge_amount > 0
        THEN bought(c_buy_with_specific_market(st1, p, quantized_hedge_amount, "MARKET", NaN, rejected))
        ELSE st1
      sell_priced(st1, sell_fill_quantity, price_for_volume) ==
        IF price_for_volume = None THEN [st1 EXCEPT !.raised = TRUE]
        ELSE sell_hedged(st1,
               c_quantize_order_amount(sell_fill_quantity, 1))
      sell_bucket(st1, sell_fill_quantity) ==
        IF st1.raised \/ ~(sell_fill_quantity > 0) THEN st1
        ELSE sell_priced(st1, sell_fill_quantity, c_get_price_for_volume(env, p, TRUE, sell_fill_quantity))
      buy_hedged(quantized_hedge_amount) ==
        IF quantized_hedge_amount > 0
        THEN sold(c_sell_with_specific_market(st, p, quantized_hedge_amount, "MARKET", NaN, rejected))
        ELSE st
      buy_bucket(buy_fill_quantity) ==
        IF buy_fill_quantity > 0
        THEN buy_hedged(c_quantize_order_amount(buy_fill_quantity, 1))
        ELSE st
  IN sell_bucket(buy_bucket(SumSeq(st.buy_events[p])), SumSeq(st.sell_events[p]))

\* a drain that leaves the hedged fills in their bucket
c_check_and_hedge_orders_keeps_bucket(env, st, p, rejected) ==
  LET f == config.order_size_taker_balance_factor_permille
      sold(s) == s
      bought(s) == s
      sell_hedged(st1, quantized_hedge_amount) ==
        IF quantized_hedge_amount > 0
        THEN bought(c_buy_with_specific_market(st1, p, quantized_hedge_amount, "MARKET", NaN, rejected))
        ELSE st1
      sell_priced(st1, sell_fill_quantity, price_for_volume) ==
        IF price_for_volume = None THEN [st1 EXCEPT !.raised = TRUE]
        ELSE sell_hedged(st1,
               Min2(c_quantize_order_amount(sell_fill_quantity, 1),
                    c_quantize_order_amount(c_get_available_balance(env, st1.orders, p, "taker_quote") * f,
                                            price_for_volume * 1000)))
      sell_bucket(st1, sell_fill_quantity) ==
        IF st1.raised \/ ~(sell_fill_quantity > 0) THEN st1
        ELSE sell_priced(st1, sell_fill_quantity, c_get_price_for_volume(env, p, TRUE, sell_fill_quantity))
      buy_hedged(quantized_hedge_amount) ==
        IF quantized_hedge_amount > 0
        THEN sold(c_sell_with_specific_market(st, p, quantized_hedge_amount, "MARKET", NaN, rejected))
        ELSE st
      buy_bucket(buy_fill_quantity) ==
        IF buy_fill_quantity > 0
        THEN buy_hedged(Min2(c_quantize_order_amount(buy_fill_quantity, 1),
                             c_quantize_order_amount(c_get_available_balance(env, st.orders, p, "taker_base") * f, 1000)))
        ELSE st
  IN sell_bucket(buy_bucket(SumSeq(st.buy_events[p])), SumSeq(st.sell_events[p]))

\* variant: the bucket is deleted whether or not a taker order went out
c_check_and_hedge_orders_always_clears(env, st, p, rejected) ==
  LET f == config.order_size_taker_balance_factor_permille
      sold(s) == [s EXCEPT !.buy_events[p] = <<>>]
      bought(s) == [s EXCEPT !.sell_events[p] = <<>>]
      sell_hedged(st1, quantized_hedge_amount) ==
        IF quantized_hedge_amount > 0
        THEN bought(c_buy_with_specific_market(st1, p, quantized_hedge_amount, "MARKET", NaN, rejected))
        ELSE bought(st1)
      sell_priced(st1, sell_fill_quantity, price_for_volume) ==
        IF price_for_volume = None THEN [st1 EXCEPT !.raised = TRUE]
        ELSE sell_hedged(st1,
               Min2(c_quantize_order_amount(sell_fill_quantity, 1),
                    c_quantize_order_amount(c_get_available_balance(env, st1.orders, p, "taker_quote") * f,
                                            price_for_volume * 1000)))
      sell_bucket(st1, sell_fill_quantity) ==
        IF st1.raised \/ ~(sell_fill_quantity > 0) THEN st1
        ELSE sell_priced(st1, sell_fill_quantity, c_get_price_for_volume(env, p, TRUE, sell_fill_quantity))
      buy_hedged(quantized_hedge_amount) ==
        IF quantized_hedge_amount > 0
        THEN sold(c_sell_with_specific_market(st, p, quantized_hedge_amount, "MARKET", NaN, rejected))
        ELSE sold(st)
      buy_bucket(buy_fill_quantity) ==
        IF buy_fill_quantity > 0
        THEN buy_hedged(Min2(c_quantize_order_amount(buy_fill_quantity, 1),
                             c_quantize_order_amount(c_get_available_balance(env, st.orders, p, "taker_base") * f, 1000)))
        ELSE st
  IN sell_bucket(buy_bucket(SumSeq(st.buy_events[p])), SumSeq(st.sell_events[p]))

c_check_and_hedge_orders(env, st, p, rejected) ==
  LET f == config.order_size_taker_balance_factor_permille
      sold(s) == IF s.raised THEN s ELSE [s EXCEPT !.buy_events[p] = <<>>]
      bought(s) == IF s.raised THEN s ELSE [s EXCEPT !.sell_events[p] = <<>>]
      sell_hedged(st1, quantized_hedge_amount) ==
        IF quantized_hedge_amount > 0
        THEN bought(c_buy_with_specific_market(st1, p, quantized_hedge_amount, "MARKET", NaN, rejected))
        ELSE st1
      sell_priced(st1, sell_fill_quantity, price_for_volume) ==
        IF price_for_volume = None THEN [st1 EXCEPT !.raised = TRUE]
        ELSE sell_hedged(st1,
               Min2(c_quantize_order_amount(sell_fill_quantity, 1),
                    c_quantize_order_amount(c_get_available_balance(env, st1.orders, p, "taker_quote") * f,
                                            price_for_volume * 1000)))
      sell_bucket(st1, sell_fill_quantity) ==
        IF st1.raised \/ ~(sell_fill_quantity > 0) THEN st1
        ELSE sell_priced(st1, sell_fill_quantity, c_get_price_for_volume(env, p, TRUE, sell_fill_quantity))
      buy_hedged(quantized_hedge_amount) ==
        IF quantized_hedge_amount > 0
        THEN sold(c_sell_with_specific_market(st, p, quantized_hedge_amount, "MARKET", NaN, rejected))
        ELSE st
      buy_bucket(buy_fill_quantity) ==
        IF buy_fill_quantity > 0
        THEN buy_hedged(Min2(c_quantize_order_amount(buy_fill_quantity, 1),
                             c_quantize_order_amount(c_get_available_balance(env, st.orders, p, "taker_base") * f, 1000)))
        ELSE st
  IN sell_bucket(buy_bucket(SumSeq(st.buy_events[p])), SumSeq(st.sell_events[p]))

\* ------------------------------------------------------------------ state
\* what the last handler did: its name, whether an exception left it (tick)
\* or was caught in it (fill), the pairs it processed, the orders it
\* evaluated, the cancels it requested and why, the event it got
NoLast ==
  [op |-> "none", raised |-> FALSE, processed |-> <<>>, evaluated |-> {}, cancels |-> {},
   order_id |-> 0, order_type |-> "LIMIT", pair |-> 0,
   is_bid |-> FALSE, size |-> 0, price |-> None,
   sampled |-> FALSE, slot |-> -1, events |-> <<>>]

NoHedges == [p \in Pairs |-> [b \in BOOLEAN |-> 0]]

\* a paper-trade venue nobody has funded
NoAccounts == << >>

Snapshot ==
  [orders |-> orders, tm |-> tracked_maker_orders, tt |-> tracked_taker_orders,
   ifc |-> in_flight_cancels, mpt |-> market_pair_tracker,
   timers |-> anti_hysteresis_timers, next_id |-> next_order_id,
   buy_events |-> order_fill_buy_events, sell_events |-> order_fill_sell_events,
   raised |-> FALSE, evaluated |-> {}, cancels |-> {}, placed |-> {},
   processed |-> <<>>, fill |-> NoLast]

\* the handler's result becomes the next state
Commit(st) ==
  /\ orders' = st.orders
  /\ tracked_maker_orders' = st.tm
  /\ tracked_taker_orders' = st.tt
  /\ in_flight_cancels' = st.ifc
  /\ market_pair_tracker' = st.mpt
  /\ anti_hysteresis_timers' = st.timers
  /\ next_order_id' = st.next_id
  /\ order_fill_buy_events' = st.buy_events
  /\ order_fill_sell_events' = st.sell_events

\* arguments of __init__: the defaults with a fixed order amount
\* constructed: __init__ returned, FALSE when it raised
ActiveConfig(pairs) ==
  [market_pairs |-> pairs, active_order_canceling |-> TRUE,
   cancel_order_threshold_pct |-> 5,
   adjust_order_enabled |-> TRUE, order_amount |-> 10,
   order_size_taker_volume_factor_permille |-> order_size_taker_volume_factor_permille,
   order_size_taker_balance_factor_permille |-> order_size_taker_balance_factor_permille,
   constructed |-> TRUE]

\* a constructor that refuses an empty pair list
init_refuses_empty(pairs, volume_factor, balance_factor) ==
  LET checked(args) ==
        IF Len(pairs) <= 0 THEN [args EXCEPT !.constructed = FALSE]
        ELSE IF ~(0 <= volume_factor /\ volume_factor <= 1000) THEN [args EXCEPT !.constructed = FALSE]
        ELSE IF ~(0 <= balance_factor /\ balance_factor <= 1000) THEN [args EXCEPT !.constructed = FALSE]
        ELSE args
  IN checked([ActiveConfig(pairs) EXCEPT !.order_size_taker_volume_factor_permille = volume_factor,
                                         !.order_size_taker_balance_factor_permille = balance_factor])

\* __init__ called with a pair list and the two size factors (in permille):
\* the arguments it keeps, constructed FALSE when it raises ValueError
init(pairs, volume_factor, balance_factor) ==
  LET checked(args) ==
        IF Len(pairs) < 0 THEN [args EXCEPT !.constructed = FALSE]
        ELSE IF ~(0 <= volume_factor /\ volume_factor <= 1000) THEN [args EXCEPT !.constructed = FALSE]
        ELSE IF ~(0 <= balance_factor /\ balance_factor <= 1000) THEN [args EXCEPT !.constructed = FALSE]
        ELSE args
  IN checked([ActiveConfig(pairs) EXCEPT !.order_size_taker_volume_factor_permille = volume_factor,
                                         !.order_size_taker_balance_factor_permille = balance_factor])

\* the same without active cancelling: orders expire on the venue, and are
\* cancelled only when they would lose money
PassiveConfig(pairs) ==
  [ActiveConfig(pairs) EXCEPT !.active_order_canceling = FALSE,
                              !.cancel_order_threshold_pct = 0]

\* passive cancelling with the default cancel_order_threshold of 0.05
PassiveThresholdConfig(pairs) ==
  [ActiveConfig(pairs) EXCEPT !.active_order_canceling = FALSE]

InitFrom(cfg, ready) ==
  /\ current_timestamp = 0
  /\ last_timestamp = 0
  /\ ticks = 0
  /\ markets_ready = ready
  /\ all_markets_ready = FALSE
  /\ next_order_id = 1
  /\ orders = << >>
  /\ tracked_maker_orders = {}
  /\ tracked_taker_orders = {}
  /\ in_flight_cancels = {}
  /\ market_pair_tracker = << >>
  /\ order_fill_buy_events = [p \in Pairs |-> <<>>]
  /\ order_fill_sell_events = [p \in Pairs |-> <<>>]
  /\ anti_hysteresis_timers = [p \in Pairs |-> 0]
  /\ suggested_price_samples = [p \in Pairs |-> [bids |-> <<>>, asks |-> <<>>]]
  /\ taker_book = "normal"
  /\ balances = "rich"
  /\ config \in cfg
  /\ hedges_since_tick = NoHedges
  /\ account_balance = NoAccounts
  /\ queued_orders = <<>>
  /\ last = NoLast

\* the venues are ready from the start
InitWith(cfg) == InitFrom(cfg, TRUE)

Init == InitWith({ActiveConfig(<<1>>), ActiveConfig(<<2>>), PassiveConfig(<<1>>)})

\* ---------------------------------------------------------------- handlers
TickSteps == {1000}

\* how long after closing an order the venue can still report a fill of it
LateFillWindow == 2 * SHADOW_MAKER_ORDER_KEEP_ALIVE_DURATION

\* variant: the tick goes on whatever the venues report
all_markets_ready_always(latched, ready) == TRUE

\* self._all_markets_ready after the readiness check of c_tick: once all
\* venues were seen ready they are not asked again
all_markets_ready_checked(latched, ready) == latched \/ ready

\* a tick that also hands the orders with a cancel in flight to the supervisor
c_tick_evaluates_in_flight(env, dt, rejected) ==
  /\ ticks < MaxTicks
  /\ LET now == current_timestamp + dt
         ready == all_markets_ready_checked(all_markets_ready, markets_ready)
         market_pair_to_active_orders ==
           [p \in Pairs |-> SortedSeq({i \in tracked_maker_orders :
                                         market_pairs_get(MakerLeg(orders[i].pair)) = p})]
         ticked(st1) ==
           /\ st1.next_id <= MaxOrderId + 1
           /\ Commit(st1)
           /\ last' = [NoLast EXCEPT !.op = "tick", !.raised = st1.raised,
                                     !.processed = st1.processed,
                                     !.evaluated = st1.evaluated,
                                     !.cancels = st1.cancels]
         tracked(mpt0) ==
           [Snapshot EXCEPT !.mpt = mpt0,
                            !.orders = [i \in {j \in DOMAIN orders :
                                                  \/ orders[j].venue = "open"
                                                  \/ ~(orders[j].closed + LateFillWindow < now)}
                                          |-> orders[i]]]
         started(st0) ==
           ticked(IF ready
                  THEN process_market_pairs(env, st0, market_pairs_values, market_pair_to_active_orders, now, rejected)
                  ELSE st0)
     IN /\ started(tracked(market_pair_tracker_c_tick(market_pair_tracker, now)))
        /\ current_timestamp' = now
        /\ last_timestamp' = now
        /\ ticks' = ticks + 1
        /\ all_markets_ready' = ready
        /\ hedges_since_tick' = NoHedges
        /\ taker_book' = IF ready THEN env.taker_book ELSE taker_book
        /\ balances' = IF ready THEN env.balances ELSE balances
  /\ UNCHANGED <<markets_ready, suggested_price_samples, config,
                 account_balance, queued_orders>>

\* c_tick(timestamp); the venue rejects new orders on the maker legs in rejected.
\* The venue forgets a closed order when LateFillWindow has passed since it
\* was closed: no event for it is delivered any more.
c_tick(env, dt, rejected) ==
  /\ ticks < MaxTicks
  /\ LET now == current_timestamp + dt
         ready == all_markets_ready_checked(all_markets_ready, markets_ready)
         market_pair_to_active_orders ==
           [p \in Pairs |-> SortedSeq({i \in tracked_maker_orders :
                                         /\ market_pairs_get(MakerLeg(orders[i].pair)) = p
                                         /\ i \notin in_flight_cancels})]
         ticked(st1) ==
           /\ st1.next_id <= MaxOrderId + 1
           /\ Commit(st1)
           /\ last' = [NoLast EXCEPT !.op = "tick", !.raised = st1.raised,
                                     !.processed = st1.processed,
                                     !.evaluated = st1.evaluated,
                                     !.cancels = st1.cancels]
         tracked(mpt0) ==
           [Snapshot EXCEPT !.mpt = mpt0,
                            !.orders = [i \in {j \in DOMAIN orders :
                                                  \/ orders[j].venue = "open"
                                                  \/ ~(orders[j].closed + LateFillWindow < now)}
                                          |-> orders[i]]]
         started(st0) ==
           ticked(IF ready
                  THEN process_market_pairs(env, st0, market_pairs_values, market_pair_to_active_orders, now, rejected)
                  ELSE st0)
     IN /\ started(tracked(market_pair_tracker_c_tick(market_pair_tracker, now)))
        /\ current_timestamp' = now
        /\ last_timestamp' = now
        /\ ticks' = ticks + 1
        /\ all_markets_ready' = ready
        /\ hedges_since_tick' = NoHedges
        /\ taker_book' = IF ready THEN env.taker_book ELSE taker_book
        /\ balances' = IF ready THEN env.balances ELSE balances
  /\ UNCHANGED <<markets_ready, suggested_price_samples, config,
                 account_balance, queued_orders>>

\* variant: fills of every order type are taken to the bucket
c_did_fill_order_any_type(env, st, order_id, order_type, is_buy, amount, rejected) ==
  LET handled(market_pair, st1) ==
        [st1 EXCEPT !.raised = FALSE,
                    !.fill = [NoLast EXCEPT !.op = "fill", !.raised = st1.raised,
                                            !.order_id = order_id, !.order_type = order_type,
                                            !.pair = market_pair]]
      resolved(market_pair) ==
        IF market_pair # 0
        THEN handled(market_pair,
                     c_check_and_hedge_orders(env,
                        IF is_buy
                        THEN [st EXCEPT !.buy_events[market_pair] = Append(@, amount)]
                        ELSE [st EXCEPT !.sell_events[market_pair] = Append(@, amount)],
                        market_pair, rejected))
        ELSE handled(market_pair, st)
  IN resolved(c_get_market_pair_from_order_id(st.mpt, order_id))

\* variant: the fill is put in the bucket and the bucket is left for later
c_did_fill_order_defers(env, st, order_id, order_type, is_buy, amount, rejected) ==
  LET handled(market_pair, st1) ==
        [st1 EXCEPT !.raised = FALSE,
                    !.fill = [NoLast EXCEPT !.op = "fill", !.raised = st1.raised,
                                            !.order_id = order_id, !.order_type = order_type,
                                            !.pair = market_pair]]
      resolved(market_pair) ==
        IF market_pair # 0 /\ order_type = "LIMIT"
        THEN handled(market_pair,
                     IF is_buy
                     THEN [st EXCEPT !.buy_events[market_pair] = Append(@, amount)]
                     ELSE [st EXCEPT !.sell_events[market_pair] = Append(@, amount)])
        ELSE handled(market_pair, st)
  IN resolved(c_get_market_pair_from_order_id(st.mpt, order_id))

\* c_did_fill_order(OrderFilled{order_id, order_type, trade_type, amount});
\* the exception of a rejected taker order is caught and logged
c_did_fill_order(env, st, order_id, order_type, is_buy, amount, rejected) ==
  LET handled(market_pair, st1) ==
        [st1 EXCEPT !.raised = FALSE,
                    !.fill = [NoLast EXCEPT !.op = "fill", !.raised = st1.raised,
                                            !.order_id = order_id, !.order_type = order_type,
                                            !.pair = market_pair]]
      resolved(market_pair) ==
        IF market_pair # 0 /\ order_type = "LIMIT"
        THEN handled(market_pair,
                     c_check_and_hedge_orders(env,
                        IF is_buy
                        THEN [st EXCEPT !.buy_events[market_pair] = Append(@, amount)]
                        ELSE [st EXCEPT !.sell_events[market_pair] = Append(@, amount)],
                        market_pair, rejected))
        ELSE handled(market_pair, st)
  IN resolved(c_get_market_pair_from_order_id(st.mpt, order_id))

\* variant: the id of a stopped maker order is dropped at once
c_stop_tracking_limit_order_forgets(st, order_id) ==
  [st EXCEPT !.mpt = [i \in DOMAIN @ \ {order_id} |-> @[i]],
             !.tm = @ \ {order_id},
             !.ifc = @ \ {order_id}]

\* c_stop_tracking_limit_order: called by StrategyBase when a maker order is
\* cancelled or completed
c_stop_tracking_limit_order(st, order_id) ==
  [st EXCEPT !.mpt = c_stop_tracking_order_id(@, order_id, current_timestamp),
             !.tm = @ \ {order_id},
             !.ifc = @ \ {order_id}]

\* c_stop_tracking_market_order: called by StrategyBase when a taker order is
\* completed
c_stop_tracking_market_order(st, order_id) ==
  [st EXCEPT !.mpt = c_stop_tracking_order_id(@, order_id, current_timestamp),
             !.tt = @ \ {order_id}]

\* ------------------------------------------------------------ venue events
Untouched == <<current_timestamp, last_timestamp, ticks, markets_ready,
               all_markets_ready, suggested_price_samples, config,
               account_balance, queued_orders>>

\* what the handlers can observe of the markets when they run
\* a tick sees the taker book where it was or moved down, a fill finds the
\* taker wallet full, nearly empty or empty
TickEnvs == {[taker_book |-> "normal", balances |-> "rich"],
             [taker_book |-> "moved", balances |-> "rich"]}
FillEnvs == {[taker_book |-> "normal", balances |-> "rich"],
             [taker_book |-> "normal", balances |-> "poor"],
             [taker_book |-> "normal", balances |-> "none"]}
Observed == [taker_book |-> taker_book, balances |-> balances]

Forget(ords, id) == [i \in DOMAIN ords \ {id} |-> ords[i]]

HedgesCounted(st) ==
  [p \in Pairs |-> [b \in BOOLEAN |->
     hedges_since_tick[p][b] +
     Cardinality({i \in st.placed : st.orders[i].pair = p /\ st.orders[i].is_buy = b})]]

\* the handler of a fill event has run
Filled(env, st) ==
  /\ st.next_id <= MaxOrderId + 1
  /\ Commit(st)
  /\ hedges_since_tick' = HedgesCounted(st)
  /\ last' = st.fill
  /\ taker_book' = env.taker_book
  /\ balances' = env.balances
  /\ UNCHANGED Untouched

\* amounts in which the venue may fill a resting order: all that remains,
\* or half of an untouched order
FillAmounts(o) ==
  {o.quantity - o.filled} \cup
  (IF o.filled = 0 /\ o.quantity >= 2 THEN {o.quantity \div 2} ELSE {})

\* the maker venue fills (part of) a limit order of the strategy and, when
\* nothing remains, reports it completed.  An order whose cancel was confirmed
\* meanwhile can still produce a late fill event.
MakerOrderFilled(env, id, amount, rejected) ==
  /\ id \in DOMAIN orders
  /\ orders[id].type = "LIMIT"
  /\ amount \in FillAmounts(orders[id])
  /\ LET done == orders[id].filled + amount = orders[id].quantity
         reported(st1) ==
           Filled(IF st1.fill.pair # 0 THEN env ELSE Observed,
                  IF done /\ orders[id].venue = "open" THEN c_stop_tracking_limit_order(st1, id) ELSE st1)
     IN reported(c_did_fill_order(env,
                   [Snapshot EXCEPT !.orders = IF done THEN Forget(orders, id)
                                               ELSE [orders EXCEPT ![id].filled = @ + amount]],
                   id, "LIMIT", orders[id].is_buy, amount, rejected))

\* the taker venue executes a market order of the strategy: it reports the
\* fill and the completion
TakerOrderExecuted(id) ==
  /\ id \in DOMAIN orders
  /\ orders[id].type = "MARKET"
  /\ Filled(Observed,
            c_stop_tracking_market_order(
              c_did_fill_order(Observed, [Snapshot EXCEPT !.orders = Forget(orders, id)],
                               id, "MARKET", orders[id].is_buy, orders[id].quantity, FALSE),
              id))

\* a fill of an order that is not the strategy's (id 0 is never handed out)
ForeignOrderFilled(is_buy) ==
  Filled(Observed, c_did_fill_order(Observed, Snapshot, 0, "LIMIT", is_buy, 10, FALSE))

\* the venue confirms a cancel
OrderCancelled(id) ==
  /\ id \in in_flight_cancels
  /\ id \in DOMAIN orders
  /\ orders[id].venue = "open"
  /\ Commit(c_stop_tracking_limit_order(
              [Snapshot EXCEPT !.orders = [orders EXCEPT ![id].venue = "cancelled",
                                                       ![id].closed = current_timestamp]], id))
  /\ last' = [NoLast EXCEPT !.op = "cancelled", !.order_id = id]
  /\ UNCHANGED <<hedges_since_tick, taker_book, balances>>
  /\ UNCHANGED Untouched

\* the venue expires a limit order that was placed with an expiration
OrderExpired(id) ==
  /\ id \in DOMAIN orders
  /\ orders[id].venue = "open"
  /\ orders[id].type = "LIMIT"
  /\ orders[id].expiration # NaN
  /\ Commit(c_stop_tracking_limit_order(
              [Snapshot EXCEPT !.orders = [orders EXCEPT ![id].venue = "cancelled",
                                                       ![id].closed = current_timestamp]], id))
  /\ last' = [NoLast EXCEPT !.op = "expired", !.order_id = id]
  /\ UNCHANGED <<hedges_since_tick, taker_book, balances>>
  /\ UNCHANGED Untouched

Next ==
  \/ \E env \in TickEnvs, dt \in TickSteps, rejected \in SUBSET MakerLegs : c_tick(env, dt, rejected)
  \/ \E env \in FillEnvs, id \in 1..MaxOrderId, amount \in 1..10, rejected \in BOOLEAN :
        MakerOrderFilled(env, id, amount, rejected)
  \/ \E id \in 1..MaxOrderId : TakerOrderExecuted(id)
  \/ \E is_buy \in BOOLEAN : ForeignOrderFilled(is_buy)
  \/ \E id \in 1..MaxOrderId : OrderCancelled(id)
  \/ \E id \in 1..MaxOrderId : OrderExpired(id)

Spec == Init /\ [][Next]_vars

\* Two configured pairs on calm markets: the taker book stays where it is
\* and the taker wallet stays full, the venue may reject new orders.
CalmEnvs == {[taker_book |-> "normal", balances |-> "rich"]}

InitPairs == InitWith({ActiveConfig(<<1, 2>>)})

NextPairs ==
  \/ \E env \in CalmEnvs, dt \in TickSteps, rejected \in SUBSET MakerLegs : c_tick(env, dt, rejected)
  \/ \E env \in CalmEnvs, id \in 1..MaxOrderId, amount \in 1..10 :
        MakerOrderFilled(env, id, amount, FALSE)
  \/ \E id \in 1..MaxOrderId : TakerOrderExecuted(id)

SpecPairs == InitPairs /\ [][NextPairs]_vars

\* One pair ticked often enough for stopped orders to stay resolvable over
\* several ticks before their keep-alive runs out.
LateTickSteps == {450}

InitLate == InitWith({ActiveConfig(<<1>>)})

NextLate ==
  \/ \E env \in TickEnvs, dt \in LateTickSteps : c_tick(env, dt, {})
  \/ \E env \in FillEnvs, id \in 1..MaxOrderId, amount \in 1..10 :
        MakerOrderFilled(env, id, amount, FALSE)
  \/ \E id \in 1..MaxOrderId : TakerOrderExecuted(id)
  \/ \E id \in 1..MaxOrderId : OrderCancelled(id)

SpecLate == InitLate /\ [][NextLate]_vars

\* One pair whose venues are not ready at the start; they become ready and
\* can stop being ready again.
MarketsReadyChanged(ready) ==
  /\ ready # markets_ready
  /\ markets_ready' = ready
  /\ last' = [NoLast EXCEPT !.op = "ready"]
  /\ UNCHANGED <<current_timestamp, last_timestamp, ticks, all_markets_ready,
                 next_order_id, orders, tracked_maker_orders, tracked_taker_orders,
                 in_flight_cancels, market_pair_tracker, order_fill_buy_events,
                 order_fill_sell_events, anti_hysteresis_timers,
                 suggested_price_samples, taker_book, balances, config,
                 hedges_since_tick,
                 account_balance, queued_orders>>

InitReady == InitFrom({ActiveConfig(<<1>>)}, FALSE)

NextReady ==
  \/ \E env \in TickEnvs, dt \in TickSteps : c_tick(env, dt, {})
  \/ \E ready \in BOOLEAN : MarketsReadyChanged(ready)
  \/ \E env \in CalmEnvs, id \in 1..MaxOrderId, amount \in 1..10 :
        MakerOrderFilled(env, id, amount, FALSE)

SpecReady == InitReady /\ [][NextReady]_vars

\* One pair while the taker book runs thin: it cannot supply the volume of
\* an order, so there is no VWAP for it.
ThinEnvs == {[taker_book |-> "normal", balances |-> "rich"],
             [taker_book |-> "thin", balances |-> "rich"]}

InitThin == InitWith({ActiveConfig(<<1>>), ActiveConfig(<<2>>), PassiveConfig(<<1>>)})

NextThin ==
  \/ \E env \in ThinEnvs, dt \in TickSteps : c_tick(env, dt, {})
  \/ \E env \in CalmEnvs, id \in 1..MaxOrderId, amount \in 1..10 :
        MakerOrderFilled(env, id, amount, FALSE)
  \/ \E id \in 1..MaxOrderId : TakerOrderExecuted(id)
  \/ \E id \in 1..MaxOrderId : OrderCancelled(id)

SpecThin == InitThin /\ [][NextThin]_vars

\* Ticks that come within and beyond the anti-hysteresis window while the
\* taker book tightens: the suggested prices move and the resting orders stay
\* profitable.  The maker wallet can hold both assets, the taker wallet can run
\* short.
DriftTickSteps == {30, 100}

DriftEnvs == {[taker_book |-> "normal", balances |-> "both"],
              [taker_book |-> "normal", balances |-> "rich"],
              [taker_book |-> "asklow", balances |-> "both"],
              [taker_book |-> "tight", balances |-> "both"],
              [taker_book |-> "asklow", balances |-> "rich"],
              [taker_book |-> "tight", balances |-> "poor"],
              [taker_book |-> "moved", balances |-> "poor"]}

InitDrift == InitWith({ActiveConfig(<<1>>), ActiveConfig(<<1, 2>>), PassiveConfig(<<1>>)})

NextDrift ==
  \/ \E env \in DriftEnvs, dt \in DriftTickSteps : c_tick(env, dt, {})
  \/ \E id \in 1..MaxOrderId : OrderCancelled(id)

SpecDrift == InitDrift /\ [][NextDrift]_vars

\* Passive cancelling with a threshold of 5 %: the bid side of the taker book
\* sits 1 %, 2 %, 4 %, 4.9 % or 5 % above a bid of 1000.  Orders expire on
\* the venue.
ThresholdEnvs == {[taker_book |-> b, balances |-> "rich"] :
                    b \in {"bid1010", "bid1020", "bid1040", "bid1049", "bid1050"}}

InitThreshold == InitWith({PassiveThresholdConfig(<<1>>)})

NextThreshold ==
  \/ \E env \in ThresholdEnvs, dt \in DriftTickSteps : c_tick(env, dt, {})
  \/ \E id \in 1..MaxOrderId : OrderCancelled(id)
  \/ \E id \in 1..MaxOrderId : OrderExpired(id)

SpecThreshold == InitThreshold /\ [][NextThreshold]_vars

\* The pricer applied to every market snapshot, side and size, with
\* adjust_order_enabled on and off, for a pair quoted in the taker's quote
\* asset and for one that is converted.
PricerSizes == {1, 5, 10, 20, 60}

AdjustOffConfig(pairs) == [ActiveConfig(pairs) EXCEPT !.adjust_order_enabled = FALSE]

GetMarketMakingPrice(env, p, is_bid, size) ==
  /\ last' = [NoLast EXCEPT !.op = "price", !.pair = p, !.is_bid = is_bid, !.size = size,
                            !.price = c_get_market_making_price(env, p, is_bid, size)]
  /\ taker_book' = env.taker_book
  /\ balances' = env.balances
  /\ UNCHANGED <<current_timestamp, last_timestamp, ticks, markets_ready,
                 all_markets_ready, next_order_id, orders, tracked_maker_orders,
                 tracked_taker_orders, in_flight_cancels, market_pair_tracker,
                 order_fill_buy_events, order_fill_sell_events,
                 anti_hysteresis_timers, suggested_price_samples, config,
                 hedges_since_tick,
                 account_balance, queued_orders>>

PricerEnvs == {[taker_book |-> b, balances |-> "rich"] : b \in BookNames}

InitPricer == InitWith({ActiveConfig(<<1, 2>>), AdjustOffConfig(<<1, 2>>)})

NextPricer ==
  \E env \in PricerEnvs, p \in Pairs, is_bid \in BOOLEAN, size \in PricerSizes :
     GetMarketMakingPrice(env, p, is_bid, size)

SpecPricer == InitPricer /\ [][NextPricer]_vars

\* The price sampler on a running clock.  c_take_suggested_price_sample has
\* no caller in part_000; it runs here where the specification's data flow
\* puts it, once for every configured pair on each tick, between the clock
\* update of c_tick and the update of _last_timestamp.  The top of the maker
\* book narrows and widens between the ticks.
MaxSampleTicks == 14

SampleTickSteps == {2, 5}

SamplerEnvs == {[taker_book |-> b, balances |-> "rich"] : b \in {"normal", "spike", "dip"}}

SampleTick(env, dt) ==
  /\ ticks < MaxSampleTicks
  /\ LET now == current_timestamp + dt
         configured == {market_pairs_values[i] : i \in 1..Len(market_pairs_values)}
     IN /\ suggested_price_samples' =
             [p \in Pairs |-> IF p \in configured
                              THEN c_take_suggested_price_sample(env, p, last_timestamp, now)
                              ELSE suggested_price_samples[p]]
        /\ last' = [NoLast EXCEPT !.op = "sample",
                                  !.sampled = SampleIsDue(last_timestamp, now),
                                  !.slot = IF SampleIsDue(last_timestamp, now)
                                           THEN now \div ORDER_ADJUST_SAMPLE_INTERVAL
                                           ELSE last.slot]
        /\ current_timestamp' = now
        /\ last_timestamp' = now
  /\ ticks' = ticks + 1
  /\ taker_book' = env.taker_book
  /\ balances' = env.balances
  /\ UNCHANGED <<markets_ready, all_markets_ready, next_order_id, orders,
                 tracked_maker_orders, tracked_taker_orders, in_flight_cancels,
                 market_pair_tracker, order_fill_buy_events, order_fill_sell_events,
                 anti_hysteresis_timers, config, hedges_since_tick,
                 account_balance, queued_orders>>

InitSampler == InitWith({ActiveConfig(<<1>>)})

NextSampler == \E env \in SamplerEnvs, dt \in SampleTickSteps : SampleTick(env, dt)

SpecSampler == InitSampler /\ [][NextSampler]_vars

\* Two configured pairs that make on the same maker leg and hedge on
\* different taker legs, in either list order.
InitShared == InitWith({ActiveConfig(<<1, 3>>), ActiveConfig(<<3, 1>>)})

NextShared ==
  \/ \E env \in TickEnvs, dt \in TickSteps : c_tick(env, dt, {})
  \/ \E env \in CalmEnvs, id \in 1..MaxOrderId, amount \in 1..10 :
        MakerOrderFilled(env, id, amount, FALSE)
  \/ \E id \in 1..MaxOrderId : TakerOrderExecuted(id)
  \/ \E id \in 1..MaxOrderId : OrderCancelled(id)

SpecShared == InitShared /\ [][NextShared]_vars

\* Construction with a pair list that may be empty and size factors inside
\* and outside [0, 1]; the clock ticks the strategies that were constructed.
FactorArgs == {-1, 0, 995, 1000, 1001}

InitConstruct ==
  InitWith({init(pairs, volume_factor, balance_factor) :
              pairs \in {<<>>, <<1>>, <<2>>}, volume_factor \in FactorArgs, balance_factor \in FactorArgs})

NextConstruct ==
  \E env \in TickEnvs, dt \in TickSteps : config.constructed /\ c_tick(env, dt, {})

SpecConstruct == InitConstruct /\ [][NextConstruct]_vars

\* The paper-trade venue on its own: limit orders are placed on two trading
\* pairs and cancelled by client order id.  A client order id is the side it
\* was created with ("buy://..." or "sell://...") and a number; orders[i] is
\* the order with number i, its field pair the trading pair.
TradingPairs == {1, 2}

\* PaperTradeMarket._bid_limit_orders / _ask_limit_orders of a trading pair
RestingLimitOrders(ords, trading_pair, is_buy) ==
  {i \in DOMAIN ords : /\ ords[i].pair = trading_pair /\ ords[i].is_buy = is_buy
                       /\ ords[i].type = "LIMIT" /\ ords[i].venue = "open"}

\* PaperTradeMarket.c_cancel_order_from_orders_map(orders_map, trading_pair_str,
\* cancel_all, client_order_id): the orders it deletes, each with an
\* OrderCancelledEvent
c_cancel_order_from_orders_map(ords, is_buy, trading_pair, cancel_all, client_order_id) ==
  {i \in RestingLimitOrders(ords, trading_pair, is_buy) :
     (~cancel_all /\ i = client_order_id) \/ cancel_all}

\* PaperTradeMarket.c_cancel(trading_pair_str, client_order_id): the side is
\* read from the id; the id is passed as the third positional argument,
\* cancel_all, where a non-empty string is true, and client_order_id keeps
\* its default None
c_cancel(ords, trading_pair, is_maker_buy, client_order_id) ==
  c_cancel_order_from_orders_map(ords, is_maker_buy, trading_pair, TRUE, None)

\* the events the venue triggers, as the listeners see them
Event(type, order_id, order_type, price, base_amount, quote_amount) ==
  [type |-> type, order_id |-> order_id, order_type |-> order_type, price |-> price,
   base_amount |-> base_amount, quote_amount |-> quote_amount]

OrderCancelledEvent(order_id) == Event("OrderCancelled", order_id, "LIMIT", 0, 0, 0)

\* PaperTradeMarket.c_buy / c_sell with OrderType.LIMIT, price and amount
\* already on the venue's grid
PaperTradeLimitOrderAt(trading_pair, is_buy, price, amount) ==
  /\ next_order_id <= MaxOrderId
  /\ orders' = (next_order_id :>
                  [pair |-> trading_pair, is_buy |-> is_buy, type |-> "LIMIT",
                   price |-> price, quantity |-> amount, filled |-> 0,
                   venue |-> "open", closed |-> NaN, expiration |-> NaN]) @@ orders
  /\ next_order_id' = next_order_id + 1
  /\ last' = [NoLast EXCEPT !.op = "created", !.order_id = next_order_id]
  /\ UNCHANGED <<current_timestamp, last_timestamp, ticks, markets_ready,
                 all_markets_ready, tracked_maker_orders, tracked_taker_orders,
                 in_flight_cancels, market_pair_tracker, order_fill_buy_events,
                 order_fill_sell_events, anti_hysteresis_timers,
                 suggested_price_samples, taker_book, balances, config,
                 hedges_since_tick,
                 account_balance, queued_orders>>

\* a bid at 985 or an ask at 1016, for 10 lots
PaperTradeLimitOrder(trading_pair, is_buy) ==
  PaperTradeLimitOrderAt(trading_pair, is_buy, IF is_buy THEN 985 ELSE 1016, 10)

\* PaperTradeMarket.c_cancel called with an id that may or may not be resting
PaperTradeCancel(trading_pair, is_maker_buy, client_order_id) ==
  /\ client_order_id \in DOMAIN orders => orders[client_order_id].is_buy = is_maker_buy
  /\ LET deleted == c_cancel(orders, trading_pair, is_maker_buy, client_order_id)
     IN /\ orders' = [i \in DOMAIN orders |->
                        IF i \in deleted THEN [orders[i] EXCEPT !.venue = "cancelled",
                                                                !.closed = current_timestamp]
                        ELSE orders[i]]
        /\ last' = [NoLast EXCEPT !.op = "cancel", !.order_id = client_order_id,
                                  !.pair = trading_pair, !.is_bid = is_maker_buy,
                                  !.cancels = {[id |-> i, reason |-> "event"] : i \in deleted},
                                  !.events = [k \in 1..Cardinality(deleted) |->
                                                OrderCancelledEvent(SortedSeq(deleted)[k])]]
  /\ UNCHANGED <<current_timestamp, last_timestamp, ticks, markets_ready,
                 all_markets_ready, next_order_id, tracked_maker_orders,
                 tracked_taker_orders, in_flight_cancels, market_pair_tracker,
                 order_fill_buy_events, order_fill_sell_events,
                 anti_hysteresis_timers, suggested_price_samples, taker_book,
                 balances, config, hedges_since_tick,
                 account_balance, queued_orders>>

InitVenue == InitWith({ActiveConfig(<<1>>)})

NextVenue ==
  \/ \E trading_pair \in TradingPairs, is_buy \in BOOLEAN :
        PaperTradeLimitOrder(trading_pair, is_buy)
  \/ \E trading_pair \in TradingPairs, is_buy \in BOOLEAN, id \in 1..(MaxOrderId + 1) :
        PaperTradeCancel(trading_pair, is_buy, id)

SpecVenue == InitVenue /\ [][NextVenue]_vars

\* ------------------------------------------------------------- properties
\* the order tracker's active maker orders of a pair on one side
active_maker_orders(p, is_buy) ==
  {i \in tracked_maker_orders : orders[i].pair = p /\ orders[i].is_buy = is_buy}

\* C1: at the end of every tick each configured pair has at most one active
\* maker bid and at most one active maker ask among the order tracker's
\* active maker orders.
C1_OneActiveOrderPerSide ==
  last.op = "tick" =>
    \A p \in Pairs, is_buy \in BOOLEAN : Cardinality(active_maker_orders(p, is_buy)) <= 1

\* the profitability floor of order o against the markets env
SatisfiesFloor(env, o) ==
  LET above(h, threshold) ==
        /\ h # Nil
        /\ IF o.is_buy THEN h.num * 100 >= o.price * (100 + threshold) * h.den
                       ELSE o.price * 100 * h.den >= h.num * (100 + threshold)
  IN above(c_calculate_effective_hedging_price(env, o.pair, o.is_buy, o.quantity),
           IF config.active_order_canceling THEN min_profitability_pct
           ELSE config.cancel_order_threshold_pct)

\* C2: after a tick, every maker order the supervisor evaluated and issued
\* no cancel for satisfies the profitability floor against the hedging price
\* the tick saw: h >= p * (1 + threshold) for a bid, p >= h * (1 + threshold)
\* for an ask, the threshold being min_profitability with active cancelling
\* and cancel_order_threshold without.
C2_KeptOrdersAreProfitable ==
  [][last'.op = "tick" =>
       \A i \in last'.evaluated :
          i \notin in_flight_cancels' => SatisfiesFloor(Observed', orders[i])]_vars

C2_Witness ==
  /\ last.op = "tick"
  /\ \E i \in last.evaluated : i \in tracked_maker_orders \ in_flight_cancels

\* a step in which c_did_fill_order took a LIMIT fill of a resolvable order
\* to its pair's bucket and drained the pair
IsDrain == last'.op = "fill" /\ last'.pair # 0 /\ last'.order_type = "LIMIT"

\* the amount of the fill event of that step
FilledAmount ==
  IF last'.order_id \in DOMAIN orders'
  THEN orders'[last'.order_id].filled - orders[last'.order_id].filled
  ELSE orders[last'.order_id].quantity - orders[last'.order_id].filled

\* the total of the pair's buy (sell) bucket when the drain of that step began
BuyTotal == SumSeq(order_fill_buy_events[last'.pair]) +
            (IF orders[last'.order_id].is_buy THEN FilledAmount ELSE 0)
SellTotal == SumSeq(order_fill_sell_events[last'.pair]) +
             (IF orders[last'.order_id].is_buy THEN 0 ELSE FilledAmount)

\* what the taker wallet allows to sell (buy) at that moment, in lots
SellCap == (c_get_balance(Observed', last'.pair, "taker_base") *
            config.order_size_taker_balance_factor_permille) \div 1000
BuyCap == (c_get_balance(Observed', last'.pair, "taker_quote") *
           config.order_size_taker_balance_factor_permille)
          \div (1000 * c_get_price_for_volume(Observed', last'.pair, TRUE, SellTotal))

\* the taker orders submitted in that step
Submitted(is_buy) ==
  {i \in DOMAIN orders' \ DOMAIN orders :
     /\ orders'[i].type = "MARKET"
     /\ orders'[i].pair = last'.pair
     /\ orders'[i].is_buy = is_buy
     /\ i \in tracked_taker_orders'}

\* C3: a drain with a buy bucket of total q > 0 submits exactly one taker
\* MARKET sell for quantize(min(q, taker base available * factor)) when that
\* is positive, and none otherwise; symmetrically one taker MARKET buy for
\* the sell bucket, capped by the taker quote available over the taker price
\* for q; with enough taker balance the hedged quantity is q.
C3_DrainSubmitsOneCappedOrder ==
  [][(IsDrain /\ ~last'.raised) =>
       /\ DOMAIN orders' \ DOMAIN orders = Submitted(TRUE) \cup Submitted(FALSE)
       /\ IF BuyTotal > 0 /\ Min2(BuyTotal, SellCap) > 0
          THEN /\ Cardinality(Submitted(FALSE)) = 1
               /\ \A i \in Submitted(FALSE) : orders'[i].quantity = Min2(BuyTotal, SellCap)
               /\ SellCap >= BuyTotal => \A i \in Submitted(FALSE) : orders'[i].quantity = BuyTotal
          ELSE Submitted(FALSE) = {}
       /\ IF SellTotal > 0 /\ Min2(SellTotal, BuyCap) > 0
          THEN /\ Cardinality(Submitted(TRUE)) = 1
               /\ \A i \in Submitted(TRUE) : orders'[i].quantity = Min2(SellTotal, BuyCap)
               /\ BuyCap >= SellTotal => \A i \in Submitted(TRUE) : orders'[i].quantity = SellTotal
          ELSE Submitted(TRUE) = {}]_vars

\* a maker buy fill was hedged by a taker sell that the taker wallet capped
C3_Witness ==
  /\ last.op = "fill" /\ last.pair # 0 /\ last.order_type = "LIMIT" /\ ~last.raised
  /\ balances = "poor"
  /\ \E i \in tracked_taker_orders : ~orders[i].is_buy /\ orders[i].quantity = 4

\* the pair's buy (sell) bucket when the drain of that step began
BuyBucket ==
  IF orders[last'.order_id].is_buy
  THEN Append(order_fill_buy_events[last'.pair], FilledAmount)
  ELSE order_fill_buy_events[last'.pair]
SellBucket ==
  IF orders[last'.order_id].is_buy
  THEN order_fill_sell_events[last'.pair]
  ELSE Append(order_fill_sell_events[last'.pair], FilledAmount)

\* C4: a bucket is emptied only when a taker order for it was submitted; when
\* the submission raises, or the hedge amount is zero, the bucket is left as
\* it was, with the new fill in it.
C4_BucketEmptiedOnlyOnSubmission ==
  [][IsDrain =>
       /\ (BuyTotal > 0 /\ order_fill_buy_events'[last'.pair] = <<>>) => Submitted(FALSE) # {}
       /\ (SellTotal > 0 /\ order_fill_sell_events'[last'.pair] = <<>>) => Submitted(TRUE) # {}
       /\ Submitted(FALSE) = {} => order_fill_buy_events'[last'.pair] = BuyBucket
       /\ Submitted(TRUE) = {} => order_fill_sell_events'[last'.pair] = SellBucket
       /\ last'.raised =>
            /\ order_fill_buy_events'[last'.pair] = BuyBucket
            /\ order_fill_sell_events'[last'.pair] = SellBucket
       /\ (BuyTotal > 0 /\ Min2(BuyTotal, SellCap) = 0) =>
            order_fill_buy_events'[last'.pair] = BuyBucket
       /\ (SellTotal > 0 /\ Min2(SellTotal, BuyCap) = 0) =>
            order_fill_sell_events'[last'.pair] = SellBucket]_vars

\* a bucket holds two fills: neither drain sent an order, the last one raised
C4_Witness ==
  /\ last.op = "fill" /\ last.pair # 0 /\ last.order_type = "LIMIT" /\ last.raised
  /\ Len(order_fill_buy_events[last.pair]) = 2

\* C5: whenever a drain empties a fill bucket, the taker order it submitted
\* covers the full aggregated quantity of the bucket; a bucket is never
\* emptied after hedging only part of its quantity.
C5_EmptiedBucketFullyHedged ==
  [][IsDrain =>
       /\ (BuyTotal > 0 /\ order_fill_buy_events'[last'.pair] = <<>>) =>
            \E i \in Submitted(FALSE) : orders'[i].quantity = BuyTotal
       /\ (SellTotal > 0 /\ order_fill_sell_events'[last'.pair] = <<>>) =>
            \E i \in Submitted(TRUE) : orders'[i].quantity = SellTotal]_vars

\* C5 (amended): whenever a drain empties a fill bucket, the taker order it
\* submitted is for the bucket's quantity capped by what the taker wallet
\* allows, which is positive and can be less than the bucket's quantity.
C5_EmptiedBucketHedgedUpToCap ==
  [][IsDrain =>
       /\ (BuyTotal > 0 /\ order_fill_buy_events'[last'.pair] = <<>>) =>
            /\ 0 < Min2(BuyTotal, SellCap)
            /\ \E i \in Submitted(FALSE) : orders'[i].quantity = Min2(BuyTotal, SellCap)
       /\ (SellTotal > 0 /\ order_fill_sell_events'[last'.pair] = <<>>) =>
            /\ 0 < Min2(SellTotal, BuyCap)
            /\ \E i \in Submitted(TRUE) : orders'[i].quantity = Min2(SellTotal, BuyCap)]_vars

\* a bucket that held a whole order of 10 lots is empty after a hedge of less
C5_Witness ==
  /\ last.op = "fill" /\ last.pair # 0 /\ last.order_type = "LIMIT"
  /\ order_fill_buy_events[last.pair] = <<>>
  /\ order_fill_sell_events[last.pair] = <<>>
  /\ last.order_id \notin DOMAIN orders
  /\ \E i \in tracked_taker_orders : orders[i].pair = last.pair /\ orders[i].quantity < 5

\* C6: when a drain left a pair's bucket non-empty and the taker balance has
\* become sufficient, the next tick drains the pair again and the buffered
\* fills are hedged without a further fill event.
C6_TickRetriesDrain ==
  [][(last'.op = "tick" /\ ~last'.raised /\ balances' = "rich") =>
       \A p \in Pairs :
          /\ order_fill_buy_events[p] # <<>> => order_fill_buy_events'[p] = <<>>
          /\ order_fill_sell_events[p] # <<>> => order_fill_sell_events'[p] = <<>>]_vars

\* a step in which c_did_fill_order got a LIMIT fill of a maker order that
\* had stopped being tracked at most 900 seconds before
IsLateFill ==
  /\ last'.op = "fill" /\ last'.order_type = "LIMIT"
  /\ last'.order_id \in DOMAIN orders
  /\ last'.order_id \notin tracked_maker_orders
  /\ orders[last'.order_id].closed # NaN
  /\ current_timestamp - orders[last'.order_id].closed <= SHADOW_MAKER_ORDER_KEEP_ALIVE_DURATION

\* C7: a LIMIT fill of a maker order that stopped being tracked at most 900
\* seconds before still resolves to the order's pair, is appended to the
\* pair's bucket and is hedged like any other fill: the bucket with the fill
\* in it is emptied by one taker order, or stays when no order went out.
C7_LateFillIsHedged ==
  [][IsLateFill =>
       /\ last'.pair = orders[last'.order_id].pair
       /\ IF orders[last'.order_id].is_buy
          THEN IF ~last'.raised /\ Min2(BuyTotal, SellCap) > 0
               THEN /\ order_fill_buy_events'[last'.pair] = <<>>
                    /\ Cardinality(Submitted(FALSE)) = 1
                    /\ \A i \in Submitted(FALSE) : orders'[i].quantity = Min2(BuyTotal, SellCap)
               ELSE /\ order_fill_buy_events'[last'.pair] = BuyBucket
                    /\ Submitted(FALSE) = {}
          ELSE IF ~last'.raised /\ Min2(SellTotal, BuyCap) > 0
               THEN /\ order_fill_sell_events'[last'.pair] = <<>>
                    /\ Cardinality(Submitted(TRUE)) = 1
                    /\ \A i \in Submitted(TRUE) : orders'[i].quantity = Min2(SellTotal, BuyCap)
               ELSE /\ order_fill_sell_events'[last'.pair] = SellBucket
                    /\ Submitted(TRUE) = {}]_vars

\* a cancelled order was filled a tick after its cancel was confirmed, and
\* the fill was hedged
C7_Witness ==
  /\ last.op = "fill" /\ last.pair # 0 /\ last.order_type = "LIMIT"
  /\ last.order_id \in DOMAIN orders
  /\ orders[last.order_id].closed # NaN
  /\ orders[last.order_id].closed < current_timestamp
  /\ last.order_id \notin tracked_maker_orders
  /\ \E i \in tracked_taker_orders : orders[i].pair = last.pair

\* C8: the maker fills of one pair and side delivered between two consecutive
\* ticks are hedged by a single taker order, not by one order per fill.
C8_OneHedgePerTick ==
  \A p \in Pairs, is_buy \in BOOLEAN : hedges_since_tick[p][is_buy] <= 1

\* C8 (amended): every LIMIT fill of a tracked order is drained in its own
\* handler, so each fill whose hedge amount is positive and accepted adds a
\* taker order of its own; an order covers the sum of several fills only
\* when earlier drains left them in the bucket.
C8_OneHedgePerDrainedFill ==
  [][(IsDrain /\ ~last'.raised) =>
       /\ hedges_since_tick'[last'.pair][FALSE] =
            hedges_since_tick[last'.pair][FALSE] +
              (IF BuyTotal > 0 /\ Min2(BuyTotal, SellCap) > 0 THEN 1 ELSE 0)
       /\ hedges_since_tick'[last'.pair][TRUE] =
            hedges_since_tick[last'.pair][TRUE] +
              (IF SellTotal > 0 /\ Min2(SellTotal, BuyCap) > 0 THEN 1 ELSE 0)
       /\ \A i \in Submitted(FALSE) : orders'[i].quantity <= BuyTotal
       /\ \A i \in Submitted(TRUE) : orders'[i].quantity <= SellTotal]_vars

\* two fills of one pair since the last tick, two taker orders
C8_Witness ==
  \E p \in Pairs, is_buy \in BOOLEAN : hedges_since_tick[p][is_buy] >= 2

\* C9: a fill event whose order id resolves to no pair, or whose order type
\* is not LIMIT, leaves the buckets of every pair as they were and submits no
\* taker order.
C9_DroppedFillChangesNothing ==
  [][(last'.op = "fill" /\ (last'.pair = 0 \/ last'.order_type # "LIMIT")) =>
       /\ order_fill_buy_events' = order_fill_buy_events
       /\ order_fill_sell_events' = order_fill_sell_events
       /\ DOMAIN orders' \subseteq DOMAIN orders
       /\ tracked_taker_orders' \subseteq tracked_taker_orders
       /\ next_order_id' = next_order_id]_vars

\* the fill of a taker order of the strategy was dropped while its pair had
\* fills waiting in a bucket
C9_Witness ==
  /\ last.op = "fill" /\ last.order_type = "MARKET" /\ last.pair # 0
  /\ \E p \in Pairs : order_fill_buy_events[p] # <<>> \/ order_fill_sell_events[p] # <<>>

\* C10: an exception raised while one pair is processed is caught at the pair
\* boundary: the tick does not propagate it and processes every configured
\* pair.
C10_TickProcessesEveryPair ==
  last.op = "tick" => (~last.raised /\ last.processed = market_pairs_values)

\* a tick step that processed no pair, requested no cancel and placed no order
IdleTick ==
  /\ last'.processed = <<>>
  /\ in_flight_cancels' = in_flight_cancels
  /\ DOMAIN orders' \subseteq DOMAIN orders
  /\ next_order_id' = next_order_id
  /\ tracked_maker_orders' = tracked_maker_orders

\* C11: on any tick at which not all venues report ready the strategy
\* processes no pair, requests no cancel and places no order.
C11_UnreadyTickIsIdle ==
  [][(last'.op = "tick" /\ ~markets_ready) => IdleTick]_vars

\* C11 (amended): the same for the ticks before all venues were seen ready at
\* a tick; from then on the venues are not asked again.
C11_UnreadyTickIsIdleBeforeStart ==
  [][(last'.op = "tick" /\ ~markets_ready /\ ~all_markets_ready) =>
       (IdleTick /\ ~all_markets_ready')]_vars

\* a tick has run and trading has not started
C11_Witness ==
  /\ last.op = "tick" /\ ~all_markets_ready /\ ~markets_ready
  /\ ticks >= 1 /\ orders = << >>

\* the maker orders a tick hands to the supervisor
ActiveOrders ==
  {i \in tracked_maker_orders \ in_flight_cancels :
     market_pairs_get(MakerLeg(orders[i].pair)) # 0}

\* C12: on a tick where the taker book yields no VWAP for the quantity of an
\* active maker order, the order receives a cancel request, with active and
\* with passive cancelling.
C12_UnpricedOrderIsCancelled ==
  [][(last'.op = "tick" /\ last'.processed # <<>> /\ ~last'.raised) =>
       \A i \in ActiveOrders :
          c_calculate_effective_hedging_price(Observed', orders[i].pair, orders[i].is_buy,
                                              orders[i].quantity) = Nil
            => i \in in_flight_cancels']_vars

\* with passive cancelling, a tick on a thin taker book asked to cancel an order
C12_Witness ==
  /\ last.op = "tick" /\ ~last.raised /\ taker_book = "thin"
  /\ ~config.active_order_canceling
  /\ \E i \in last.evaluated : i \in in_flight_cancels /\ i \in tracked_maker_orders

\* the orders a step added for a side of a pair
Placed(p, is_buy) ==
  {i \in DOMAIN orders' \ DOMAIN orders : orders'[i].pair = p /\ orders'[i].is_buy = is_buy}

\* the order a tick is to place for a side of a pair: one LIMIT order of the
\* desired size at the maker price, or none
PlacedAsDesired(p, is_buy, size) ==
  IF size > 0 /\ c_get_market_making_price(Observed', p, is_buy, size) # None
  THEN /\ Cardinality(Placed(p, is_buy)) = 1
       /\ \A i \in Placed(p, is_buy) :
            /\ orders'[i].type = "LIMIT"
            /\ orders'[i].quantity = size
            /\ orders'[i].price = c_get_market_making_price(Observed', p, is_buy, size)
            /\ i \in tracked_maker_orders'
  ELSE Placed(p, is_buy) = {}

\* C13: for a side of a pair without an active order when the pair is
\* processed, the pair having no pending taker order, the tick places exactly
\* one LIMIT order of the desired size at the maker price for that size when
\* the size is positive and the price is not nil, and no order otherwise.
C13_MissingSideIsCreated ==
  [][(last'.op = "tick" /\ ~last'.raised) =>
       \A p \in Pairs, is_buy \in BOOLEAN :
          (/\ \E k \in 1..Len(last'.processed) : last'.processed[k] = p
           /\ \A i \in ActiveOrders : ~(orders[i].pair = p /\ orders[i].is_buy = is_buy)
           /\ \A i \in tracked_taker_orders : orders[i].pair # p)
          => PlacedAsDesired(p, is_buy, c_get_market_making_size(Observed', orders, p, is_buy))]_vars

\* a tick has just placed an ask of the full order amount and no bid, the
\* maker wallet holding no quote asset
C13_Witness ==
  /\ last.op = "tick" /\ ~last.raised /\ last.processed # <<>>
  /\ \E i \in tracked_maker_orders :
        /\ ~orders[i].is_buy /\ orders[i].quantity = config.order_amount
        /\ i + 1 = next_order_id
  /\ \A i \in tracked_maker_orders : ~orders[i].is_buy

\* C14: no new maker order is created for a pair on a tick during which the
\* pair has a pending taker order.
C14_NoNewOrderWhileHedging ==
  [][last'.op = "tick" =>
       \A p \in Pairs :
          (\E i \in tracked_taker_orders : orders[i].pair = p)
          => (Placed(p, TRUE) = {} /\ Placed(p, FALSE) = {})]_vars

\* the orders of pair p a step requested a cancel for because their price
\* had drifted
DriftCancels(p) ==
  {c \in last'.cancels : c.reason = "drift" /\ orders[c.id].pair = p}

\* C15: while now <= anti_hysteresis_timer[pair] no drift cancel is issued
\* for an order of the pair, however far the suggested price has moved; a
\* drift cancel is issued only on a tick with now > timer.
C15_NoDriftCancelInsideWindow ==
  [][last'.op = "tick" =>
       \A p \in Pairs :
          DriftCancels(p) # {} => current_timestamp' > anti_hysteresis_timers[p]]_vars

\* a tick inside the window kept an order whose suggested price had moved
C15_Witness ==
  /\ last.op = "tick" /\ ~last.raised
  /\ \E i \in last.evaluated :
        /\ i \in tracked_maker_orders \ in_flight_cancels
        /\ current_timestamp <= anti_hysteresis_timers[orders[i].pair]
        /\ c_get_market_making_price(Observed, orders[i].pair, orders[i].is_buy,
                                     orders[i].quantity) # orders[i].price

\* C16: for each pair at most one drift cancel is issued within any window of
\* anti_hysteresis_duration seconds, the cancels of the pair's bid and ask
\* counted together, two orders examined in the same tick included.
C16_OneDriftCancelPerWindow ==
  [][last'.op = "tick" =>
       \A p \in Pairs :
          /\ Cardinality(DriftCancels(p)) <= 1
          /\ DriftCancels(p) # {} =>
               /\ current_timestamp' > anti_hysteresis_timers[p]
               /\ anti_hysteresis_timers'[p] = current_timestamp' + anti_hysteresis_duration]_vars

\* C16 (amended): the ticks that issue drift cancels for a pair are more than
\* anti_hysteresis_duration seconds apart: such a tick comes after the timer
\* and moves the timer to now + anti_hysteresis_duration; in that tick every
\* order of the pair found drifted is cancelled, at most one per order.
C16_OneDriftTickPerWindow ==
  [][last'.op = "tick" =>
       \A p \in Pairs :
          /\ DriftCancels(p) # {} =>
               /\ current_timestamp' - anti_hysteresis_duration
                    > anti_hysteresis_timers[p] - anti_hysteresis_duration
               /\ anti_hysteresis_timers'[p] - anti_hysteresis_duration = current_timestamp'
          /\ \A c \in DriftCancels(p) : c.id \in last'.evaluated /\ c.id \in ActiveOrders
          /\ Cardinality(DriftCancels(p)) = Cardinality({c.id : c \in DriftCancels(p)})]_vars

\* one tick has asked to cancel the bid and the ask of a pair for drift
C16_Witness ==
  /\ last.op = "tick"
  /\ \E c, d \in last.cancels :
        /\ c.reason = "drift" /\ d.reason = "drift"
        /\ c.id # d.id
        /\ orders[c.id].pair = orders[d.id].pair
        /\ orders[c.id].is_buy /\ ~orders[d.id].is_buy

\* C17: anti_hysteresis_timer[pair] never decreases; it changes only on a
\* tick that issued a drift cancel for the pair, to now +
\* anti_hysteresis_duration, and the timers of the other pairs stay.
C17_TimerOnlyMovesForward ==
  [][\A p \in Pairs :
       /\ anti_hysteresis_timers'[p] >= anti_hysteresis_timers[p]
       /\ anti_hysteresis_timers'[p] # anti_hysteresis_timers[p] =>
            /\ last'.op = "tick"
            /\ DriftCancels(p) # {}
            /\ anti_hysteresis_timers'[p] = current_timestamp' + anti_hysteresis_duration
       /\ (last'.op = "tick" /\ DriftCancels(p) = {}) =>
            anti_hysteresis_timers'[p] = anti_hysteresis_timers[p]
       /\ (last'.op = "tick" /\ DriftCancels(p) # {}) =>
            anti_hysteresis_timers'[p] = current_timestamp' + anti_hysteresis_duration]_vars

\* of two configured pairs one has had a drift cancel and its timer moved, the
\* other has its timer where it was
C17_Witness ==
  /\ last.op = "tick" /\ Len(market_pairs) = 2
  /\ \E c \in last.cancels : c.reason = "drift" /\ orders[c.id].pair = 2
  /\ anti_hysteresis_timers[2] = current_timestamp + anti_hysteresis_duration
  /\ anti_hysteresis_timers[1] = 0

\* C18: with active_order_canceling false the only cancel a tick issues is
\* the profitability cancel: no balance cancel, no drift cancel, and the
\* anti-hysteresis timer is not modified.
C18_PassiveModeOnlyProfitCancels ==
  [][(last'.op = "tick" /\ ~config.active_order_canceling) =>
       /\ \A c \in last'.cancels : c.reason = "profit"
       /\ anti_hysteresis_timers' = anti_hysteresis_timers]_vars

\* with passive cancelling a tick kept an order that the taker wallet no
\* longer covers and whose suggested price had moved
C18_Witness ==
  /\ last.op = "tick" /\ ~last.raised /\ ~config.active_order_canceling
  /\ \E i \in last.evaluated :
        /\ i \in tracked_maker_orders \ in_flight_cancels
        /\ ~c_check_if_sufficient_balance(Observed, orders[i].pair, orders[i])
        /\ c_get_market_making_price(Observed, orders[i].pair, orders[i].is_buy,
                                     orders[i].quantity) # orders[i].price

\* the effective hedging price of order i in the book the tick observes is
\* price/1000 of a bid of 1000, i.e. price/10 for a bid of 100
HedgingPriceIs(i, price) ==
  LET is(h) == h # Nil /\ h.num = price * h.den
  IN is(c_calculate_effective_hedging_price(Observed', orders[i].pair, TRUE, orders[i].quantity))

\* the resting bids of 1000 (100 in the claim's units) that a tick supervises
\* with passive cancelling at a threshold of 5 %
RestingBids ==
  {i \in ActiveOrders : /\ orders[i].is_buy /\ orders[i].price = 1000
                        /\ ~config.active_order_canceling
                        /\ config.cancel_order_threshold_pct = 5}

\* C19: with passive cancelling and cancel_order_threshold 0.05 a resting
\* bid at 100 is kept at a hedging price of 102, kept at 104.9 and cancelled
\* at 104.0.
C19_PassiveThresholdExample ==
  [][(last'.op = "tick" /\ last'.processed # <<>> /\ ~last'.raised) =>
       \A i \in RestingBids :
          /\ HedgingPriceIs(i, 1020) => i \notin in_flight_cancels'
          /\ HedgingPriceIs(i, 1049) => i \notin in_flight_cancels'
          /\ HedgingPriceIs(i, 1040) => i \in in_flight_cancels']_vars

\* C19 (amended): such a bid is cancelled at the hedging prices 102, 104.0
\* and 104.9, all below 100 * 1.05; it is kept at 105.
C19_PassiveThresholdCancelsBelow105 ==
  [][(last'.op = "tick" /\ last'.processed # <<>> /\ ~last'.raised) =>
       \A i \in RestingBids :
          /\ HedgingPriceIs(i, 1020) => i \in in_flight_cancels'
          /\ HedgingPriceIs(i, 1040) => i \in in_flight_cancels'
          /\ HedgingPriceIs(i, 1049) => i \in in_flight_cancels'
          /\ HedgingPriceIs(i, 1050) => i \notin in_flight_cancels']_vars

\* a tick at a hedging price of 104.9 asked to cancel a resting bid of 100
C19_Witness ==
  /\ last.op = "tick" /\ ~last.raised /\ taker_book = "bid1049"
  /\ ~config.active_order_canceling /\ config.cancel_order_threshold_pct = 5
  /\ \E i \in last.evaluated :
        /\ orders[i].is_buy /\ orders[i].price = 1000
        /\ i \in tracked_maker_orders /\ i \in in_flight_cancels
        /\ [id |-> i, reason |-> "profit"] \in last.cancels

\* the taker VWAP, in maker-quote units, that the last call of the pricer saw
PricedAgainst ==
  c_calculate_effective_hedging_price(Observed, last.pair, last.is_bid, last.size)

\* price <= vwap / (1 + min_profitability) for a bid,
\* price >= vwap * (1 + min_profitability) for an ask
OnProfitableSide(is_bid, price, vwap) ==
  IF is_bid THEN price * (100 + min_profitability_pct) * vwap.den <= vwap.num * 100
  ELSE price * 100 * vwap.den >= vwap.num * (100 + min_profitability_pct)

\* C20: every maker price the pricer emits is an integer multiple of the
\* maker venue's price quantum and lies on the profitable side of the taker
\* VWAP in maker-quote units: a bid at or below vwap/(1 + min_profitability),
\* an ask at or above vwap*(1 + min_profitability), for every size, with
\* adjust_order_enabled on or off.
C20_EmittedPriceIsAlignedAndProfitable ==
  (last.op = "price" /\ last.price # None) =>
     /\ last.price > 0
     /\ last.price % c_get_order_price_quantum(last.price, 1) = 0
     /\ OnProfitableSide(last.is_bid, last.price, PricedAgainst)

\* with adjust_order_enabled off the pricer emitted a bid above 10000, where
\* the quantum is ten ticks, from a VWAP that is no multiple of it
C20_Witness ==
  /\ last.op = "price" /\ last.is_bid /\ ~config.adjust_order_enabled
  /\ last.price > 10000
  /\ PricedAgainst.num * 100 % (PricedAgainst.den * (100 + min_profitability_pct) * 10) # 0

\* the values of a queue
Range(q) == {q[i] : i \in 1..Len(q)}

\* the smoothed top of pair p is the largest bid and the smallest ask among
\* the stored samples and the current top
IsSmoothedTop(top, cur, smp) ==
  /\ top.bid >= cur.bid
  /\ top.ask <= cur.ask
  /\ top.bid \in Range(smp.bids) \cup {cur.bid}
  /\ top.ask \in Range(smp.asks) \cup {cur.ask}
  /\ \A x \in Range(smp.bids) : top.bid >= x
  /\ \A x \in Range(smp.asks) : top.ask <= x

\* C21: for every pair and every state of the sample queues the smoothed top
\* bid is >= the current top-of-book bid and the smoothed top ask is <= the
\* current top-of-book ask, the smoothed values being the max (bid) and the
\* min (ask) over the stored samples together with the current value.
C21_SmoothedTopIsConservative ==
  \A p \in Pairs :
     IsSmoothedTop(c_get_top_bid_ask_from_price_samples(Observed, p),
                   c_get_top_bid_ask(Observed, p),
                   c_get_suggested_price_samples(p))

\* samples are stored and the smoothed top is strictly inside the current one
C21_Witness ==
  /\ suggested_price_samples[1].bids # <<>>
  /\ c_get_top_bid_ask_from_price_samples(Observed, 1).bid > c_get_top_bid_ask(Observed, 1).bid
  /\ c_get_top_bid_ask_from_price_samples(Observed, 1).ask < c_get_top_bid_ask(Observed, 1).ask

\* C22: a sample queue never holds more than 12 samples, an append to a full
\* queue evicts the oldest sample first, and no two samples of a pair are
\* appended within the same 5-second slot floor(now / 5).
C22_SampleQueueIsBoundedAndPaced ==
  [][last'.op = "sample" =>
       \A p \in Pairs :
          /\ Len(suggested_price_samples'[p].bids) <= 12
          /\ Len(suggested_price_samples'[p].asks) <= 12
          /\ Len(suggested_price_samples'[p].bids) = Len(suggested_price_samples'[p].asks)
          /\ suggested_price_samples'[p] # suggested_price_samples[p] => last'.sampled
          /\ last'.sampled => current_timestamp' \div 5 > last.slot
          /\ (last'.sampled /\ Len(suggested_price_samples[p].bids) = 12) =>
                \E b, a \in 990..1020 :
                   /\ suggested_price_samples'[p].bids = Append(Tail(suggested_price_samples[p].bids), b)
                   /\ suggested_price_samples'[p].asks = Append(Tail(suggested_price_samples[p].asks), a)]_vars

\* a sample was appended to a full queue and the oldest sample, a different
\* value, is gone
C22_Witness ==
  /\ last.op = "sample" /\ last.sampled /\ ticks >= 13
  /\ Len(suggested_price_samples[1].bids) = 12
  /\ suggested_price_samples[1].bids[1] # suggested_price_samples[1].bids[12]
  /\ suggested_price_samples[1].bids[1] = suggested_price_samples[1].bids[11]

\* C23: every order id the buy/sell wrappers return is registered in the
\* market-pair tracker with its owning pair before the wrapper returns, so
\* the id of every tracked order, and of every active maker order among them,
\* resolves to its own pair until stop-tracking is called for it.
C23_TrackedIdResolvesToItsPair ==
  [][/\ \A i \in next_order_id..(next_order_id' - 1) :
           c_get_market_pair_from_order_id(market_pair_tracker', i) = orders'[i].pair
     /\ \A i \in tracked_maker_orders' \cup tracked_taker_orders' :
           /\ c_get_market_pair_from_order_id(market_pair_tracker', i) = orders'[i].pair
           /\ orders'[i].pair \in Pairs
           /\ market_pair_tracker'[i].expiry = NaN]_vars

\* at the last tick a maker order with a cancel in flight still
\* resolves to its pair, while an earlier order has been stopped and forgotten
C23_Witness ==
  /\ last.op = "tick" /\ ticks = MaxTicks
  /\ \E i \in tracked_maker_orders \cap in_flight_cancels :
        /\ c_get_market_pair_from_order_id(market_pair_tracker, i) = orders[i].pair
        /\ \E j \in 1..(i - 1) : j \notin DOMAIN market_pair_tracker

\* the pairs handed to __init__
ConfiguredPairs == {config.market_pairs[i] : i \in 1..Len(config.market_pairs)}

\* C24: two configured pairs that share the maker leg and have different
\* taker legs are kept as two pairs, and the supervisor processes each of
\* them on every tick.
C24_PairsSharingMakerLegAreBothProcessed ==
  [][(last'.op = "tick" /\ all_markets_ready' /\ ~last'.raised) =>
       \A p, q \in ConfiguredPairs :
          (p # q /\ MakerLeg(p) = MakerLeg(q) /\ TakerLeg(p) # TakerLeg(q)) =>
             /\ \E k \in 1..Len(last'.processed) : last'.processed[k] = p
             /\ \E k \in 1..Len(market_pairs_values) : market_pairs_values[k] = p]_vars

\* C25: constructing the strategy with an empty pair list is refused with a
\* configuration error, as is constructing it with
\* order_size_taker_volume_factor or order_size_taker_balance_factor outside
\* [0, 1]; no strategy is started in either case.
C25_BadConfigurationIsRefused ==
  (\/ config.market_pairs = <<>>
   \/ config.order_size_taker_volume_factor_permille \notin 0..1000
   \/ config.order_size_taker_balance_factor_permille \notin 0..1000)
    => (~config.constructed /\ ticks = 0)

\* C26: on the paper-trade venue cancel(trading_pair, client_order_id)
\* removes at most the one resting limit order with that id and emits an
\* OrderCancelled event only for it; every other resting limit order stays in
\* the book, and cancelling an id that is not resting changes no state and
\* emits no event.
C26_CancelRemovesOnlyTheNamedOrder ==
  [][last'.op = "cancel" =>
       /\ \A i \in DOMAIN orders \ {last'.order_id} : orders'[i] = orders[i]
       /\ \A c \in last'.cancels : c.id = last'.order_id
       /\ last'.order_id \notin RestingLimitOrders(orders, last'.pair, last'.is_bid) =>
             (orders' = orders /\ last'.cancels = {})]_vars

\* C27: an active maker order with a cancel in flight is not evaluated by
\* the supervisor: from the tick after its cancel was requested until the
\* cancellation event is observed no tick sends it a further cancel request.
C27_InFlightCancelIsNotRepeated ==
  [][last'.op = "tick" =>
       \A i \in tracked_maker_orders \cap in_flight_cancels :
          /\ i \notin last'.evaluated
          /\ \A c \in last'.cancels : c.id # i
          /\ i \in in_flight_cancels']_vars

\* a tick has passed over an order with a cancel in flight that is still
\* unprofitable
C27_Witness ==
  /\ last.op = "tick" /\ last.processed # <<>> /\ ~last.raised
  /\ \E i \in tracked_maker_orders \cap in_flight_cancels :
        /\ i \notin last.evaluated
        /\ orders[i].venue = "open"
        /\ ~c_check_if_still_profitable(orders[i],
              c_calculate_effective_hedging_price(Observed, orders[i].pair, orders[i].is_buy,
                                                  orders[i].quantity))

\* the cancel the checks yield for order o of pair p when they are applied in
\* the order profitability, balance, drift and stop at the first that cancels
FirstFailingCheck(env, p, o, timer, now) ==
  IF ~c_check_if_still_profitable(o, c_calculate_effective_hedging_price(env, p, o.is_buy, o.quantity))
  THEN {"profit"}
  ELSE IF ~config.active_order_canceling THEN {}
  ELSE IF ~c_check_if_sufficient_balance(env, p, o) THEN {"balance"}
  ELSE IF now > timer /\ c_check_if_price_has_drifted(env, p, o) = "cancel" THEN {"drift"}
  ELSE {}

\* the ids of the maker orders a step has created
NewMakerOrders == {j \in next_order_id..(next_order_id' - 1) : orders'[j].type = "LIMIT"}

\* C28: within one tick each active maker order receives at most one cancel
\* request, the one of the first check that fails in the order profitability,
\* balance, drift; all of a pair's active orders are checked before a new
\* order of the pair is created.
C28_OneCancelPerOrderInCheckOrder ==
  [][(last'.op = "tick" /\ ~last'.raised) =>
       /\ \A c \in last'.cancels : c.id \in last'.evaluated
       /\ \A i \in last'.evaluated :
             {c.reason : c \in {d \in last'.cancels : d.id = i}} =
               FirstFailingCheck(Observed', orders[i].pair, orders[i],
                                 anti_hysteresis_timers[orders[i].pair], current_timestamp')
       /\ \A j \in NewMakerOrders :
             /\ j \notin last'.evaluated
             /\ \A i \in ActiveOrders :
                   market_pairs_get(MakerLeg(orders[i].pair)) = orders'[j].pair => i \in last'.evaluated]_vars

\* a tick cancelled for profitability an order that the balance check would
\* have cancelled too
C28_Witness ==
  /\ last.op = "tick" /\ ~last.raised /\ config.active_order_canceling
  /\ \E i \in last.evaluated :
        /\ [id |-> i, reason |-> "profit"] \in last.cancels
        /\ ~c_check_if_sufficient_balance(Observed, orders[i].pair, orders[i])

\* C29: a tick that requests the cancel of a pair's active bid (or ask) places
\* no new order on that side of the pair; the replacement comes in a later tick.
C29_NoReplacementInTheCancellingTick ==
  [][(last'.op = "tick" /\ ~last'.raised) =>
       \A c \in last'.cancels : \A j \in NewMakerOrders :
          ~(orders'[j].pair = orders[c.id].pair /\ orders'[j].is_buy = orders[c.id].is_buy)]_vars

\* a tick placed the replacement of an order whose cancel an earlier tick had
\* requested and which is still awaiting its cancellation
C29_Witness ==
  /\ last.op = "tick" /\ ~last.raised
  /\ \E i \in in_flight_cancels : \E j \in 1..(next_order_id - 1) :
        /\ i \notin last.evaluated
        /\ j > i /\ j \notin last.evaluated
        /\ j \in ActiveOrders
        /\ \A c \in last.cancels : c.id # i
        /\ orders[j].type = "LIMIT"
        /\ orders[j].pair = orders[i].pair /\ orders[j].is_buy = orders[i].is_buy

\* -------------------------------------------------- markets that stand still
\* Books, FX rate and balances are those of the initial state for the whole
\* behaviour and no order is filled: every tick sees the same environment.
StillBooks == {"normal", "tight", "asklow", "shallow"}
StillBalances == {"both", "rich", "poor", "short"}

InitStill ==
  /\ current_timestamp = 0
  /\ last_timestamp = 0
  /\ ticks = 0
  /\ markets_ready = TRUE
  /\ all_markets_ready = FALSE
  /\ next_order_id = 1
  /\ orders = << >>
  /\ tracked_maker_orders = {}
  /\ tracked_taker_orders = {}
  /\ in_flight_cancels = {}
  /\ market_pair_tracker = << >>
  /\ order_fill_buy_events = [p \in Pairs |-> <<>>]
  /\ order_fill_sell_events = [p \in Pairs |-> <<>>]
  /\ anti_hysteresis_timers = [p \in Pairs |-> 0]
  /\ suggested_price_samples = [p \in Pairs |-> [bids |-> <<>>, asks |-> <<>>]]
  /\ taker_book \in StillBooks
  /\ balances \in StillBalances
  /\ config \in {ActiveConfig(<<1>>), ActiveConfig(<<2>>), ActiveConfig(<<1, 2>>)}
  /\ hedges_since_tick = NoHedges
  /\ account_balance = NoAccounts
  /\ queued_orders = <<>>
  /\ last = NoLast

NextStill ==
  \/ \E dt \in DriftTickSteps : c_tick(Observed, dt, {})
  \/ \E id \in 1..MaxOrderId : OrderCancelled(id)

SpecStill == InitStill /\ [][NextStill]_vars

\* C30: in active-cancel mode, with books, FX rate and balances unchanged and
\* no fill, no tick asks to cancel a maker order the strategy has placed.
C30_NoChurnWhileMarketsStandStill ==
  [][last'.op = "tick" => last'.cancels = {}]_vars

\* the quantity of the taker orders of pair p and side is_buy that a step has
\* submitted
RECURSIVE QuantityOf(_, _)
QuantityOf(ords, S) ==
  IF S = {} THEN 0
  ELSE LET rest(i) == ords[i].quantity + QuantityOf(ords, S \ {i})
       IN rest(CHOOSE i \in S : TRUE)

HedgeSubmitted(p, is_buy) ==
  QuantityOf(orders', {i \in DOMAIN orders' \ DOMAIN orders :
                         /\ orders'[i].type = "MARKET"
                         /\ orders'[i].pair = p
                         /\ orders'[i].is_buy = is_buy
                         /\ i \in tracked_taker_orders'})

\* the quantity of the maker LIMIT fill of pair p and side is_buy that a step
\* has received
FillReceived(p, is_buy) ==
  IF IsDrain /\ last'.pair = p /\ orders[last'.order_id].is_buy = is_buy
  THEN FilledAmount ELSE 0

\* C31: for every pair and side the taker hedge orders submitted never exceed
\* the maker LIMIT fills received.  Every step adds to the hedged quantity
\* and to the quantity waiting in the bucket together no more than the fill
\* it received, so from empty buckets: hedged + waiting <= filled, always.
C31_NoFillIsHedgedTwice ==
  [][\A p \in Pairs :
       /\ HedgeSubmitted(p, FALSE) + SumSeq(order_fill_buy_events'[p])
            <= SumSeq(order_fill_buy_events[p]) + FillReceived(p, TRUE)
       /\ HedgeSubmitted(p, TRUE) + SumSeq(order_fill_sell_events'[p])
            <= SumSeq(order_fill_sell_events[p]) + FillReceived(p, FALSE)]_vars

\* an order of 10 lots was filled in two halves and each half hedged by a
\* taker order of its own: 10 lots filled, 10 lots hedged, nothing waiting
C31_Witness ==
  /\ last.op = "fill" /\ last.pair # 0 /\ last.order_type = "LIMIT" /\ ~last.raised
  /\ last.order_id \notin DOMAIN orders
  /\ order_fill_buy_events[last.pair] = <<>> /\ order_fill_sell_events[last.pair] = <<>>
  /\ \E i, j \in tracked_taker_orders :
        /\ i # j /\ orders[i].pair = last.pair /\ orders[j].pair = last.pair
        /\ orders[i].is_buy = orders[j].is_buy
        /\ orders[i].quantity = 5 /\ orders[j].quantity = 5

\* C32: a tick after readiness whose timestamp enters a new 5-second slot
\* appends one sample to the bid and ask queues of each configured pair.
C32_TickSamplesEachNewSlot ==
  [][(last'.op = "tick" /\ all_markets_ready'
        /\ SampleIsDue(last_timestamp, current_timestamp')) =>
       \A p \in ConfiguredPairs :
          /\ Len(suggested_price_samples'[p].bids) =
               Min2(Len(suggested_price_samples[p].bids) + 1, ORDER_ADJUST_SAMPLE_WINDOW)
          /\ Len(suggested_price_samples'[p].asks) =
               Min2(Len(suggested_price_samples[p].asks) + 1, ORDER_ADJUST_SAMPLE_WINDOW)]_vars

\* C33: the value appended to a sample queue is the maker book's current top
\* bid / top ask at sampling time, not a value derived from earlier samples.
C33_SampleIsTheCurrentTop ==
  [][(last'.op = "sample" /\ last'.sampled) =>
       \A p \in ConfiguredPairs :
          /\ suggested_price_samples'[p].bids # <<>>
          /\ suggested_price_samples'[p].bids[Len(suggested_price_samples'[p].bids)] =
               c_get_top_bid_ask(Observed', p).bid
          /\ suggested_price_samples'[p].asks[Len(suggested_price_samples'[p].asks)] =
               c_get_top_bid_ask(Observed', p).ask]_vars

\* ----------------------------------------------------------------- sizer
\* The sizer is asked for the size of a bid or an ask of a pair, with the
\* order amount fixed or left to the portfolio ratio, on full, lean, short
\* and empty wallets, before and after a tick has put orders on the maker
\* venue that hold part of the maker balances (a wallet holds at least what
\* its resting orders have put on hold).
PortfolioConfig(pairs) == [ActiveConfig(pairs) EXCEPT !.order_amount = 0]

GetMarketMakingSize(env, p, is_bid) ==
  /\ \A account \in {"maker_base", "maker_quote"} :
        c_get_available_balance(env, orders, p, account) >= 0
  /\ last' = [NoLast EXCEPT !.op = "size", !.pair = p, !.is_bid = is_bid,
                            !.size = c_get_market_making_size(env, orders, p, is_bid)]
  /\ taker_book' = env.taker_book
  /\ balances' = env.balances
  /\ UNCHANGED <<current_timestamp, last_timestamp, ticks, markets_ready,
                 all_markets_ready, next_order_id, orders, tracked_maker_orders,
                 tracked_taker_orders, in_flight_cancels, market_pair_tracker,
                 order_fill_buy_events, order_fill_sell_events,
                 anti_hysteresis_timers, suggested_price_samples, config,
                 hedges_since_tick,
                 account_balance, queued_orders>>

SizerEnvs == {[taker_book |-> b, balances |-> w] :
                b \in {"normal", "tight", "shallow", "thin"},
                w \in {"rich", "both", "lean", "poor", "short", "none"}}

InitSizer == InitWith({ActiveConfig(<<1>>), PortfolioConfig(<<1>>)})

NextSizer ==
  \/ \E env \in SizerEnvs, p \in {1, 2}, is_bid \in BOOLEAN : GetMarketMakingSize(env, p, is_bid)
  \/ \E dt \in TickSteps : c_tick([taker_book |-> "normal", balances |-> "both"], dt, {})

SpecSizer == InitSizer /\ [][NextSizer]_vars

\* the taker price the size was computed with and the balances available
SizedAt ==
  IF c_get_vwap_for_volume(Observed, last.pair, ~last.is_bid,
                           c_get_adjusted_limit_order_size(Observed, last.pair)) = Nil
  THEN [num |-> c_get_price(Observed, last.pair, TRUE), den |-> 1]
  ELSE c_get_vwap_for_volume(Observed, last.pair, ~last.is_bid,
                             c_get_adjusted_limit_order_size(Observed, last.pair))

Available(account) == c_get_available_balance(Observed, orders, last.pair, account)

\* size <= maker portfolio value * order_size_portfolio_ratio_limit, the
\* portfolio valued in base asset at the maker mid price
WithinPortfolioLimit(size, base_balance, quote_balance, twice_price) ==
  size * twice_price * 10000 <=
    (base_balance * twice_price + 2 * quote_balance) * order_size_portfolio_ratio_limit_e4

WithinBaseSize(size) ==
  IF config.order_amount > 0 THEN size <= config.order_amount
  ELSE WithinPortfolioLimit(size, c_get_balance(Observed, last.pair, "maker_base"),
                            c_get_balance(Observed, last.pair, "maker_quote"),
                            maker_top(Observed, last.pair).ask + maker_top(Observed, last.pair).bid)

BaseSizeIsZero ==
  IF config.order_amount > 0 THEN FALSE
  ELSE /\ c_get_balance(Observed, last.pair, "maker_base") = 0
       /\ c_get_balance(Observed, last.pair, "maker_quote") = 0

C35_NewOrderWithinTakerVolumeFactor ==
  [][last'.op = "tick" =>
       \A j \in NewMakerOrders :
          orders'[j].quantity * 1000 <=
            config.order_size_taker_volume_factor_permille *
              Depth(BookSide(Observed', orders'[j].pair, ~orders'[j].is_buy))]_vars

\* quantize(min(base balance, quote balance / order price)) on the filling
\* side of order o: taker base and maker quote for a bid, maker base and
\* taker quote for an ask
SizeLimit(wallet, o) ==
  IF o.is_buy
  THEN Min2(wallet.taker_base, wallet.maker_quote \div o.price)
  ELSE Min2(wallet.maker_base, wallet.taker_quote \div o.price)

PassesProfitability(env, o) ==
  c_check_if_still_profitable(o, c_calculate_effective_hedging_price(env, o.pair, o.is_buy, o.quantity))

\* C36: in active-cancel mode an active maker order that passes the
\* profitability test is cancelled by the balance test if and only if its
\* quantity exceeds quantize(min(base balance, quote balance / order price))
\* of its filling side.
C36_BalanceCancelIffOverLimit ==
  [][(last'.op = "tick" /\ ~last'.raised /\ config.active_order_canceling) =>
       \A i \in last'.evaluated :
          PassesProfitability(Observed', orders[i]) =>
            ([id |-> i, reason |-> "balance"] \in last'.cancels
               <=> orders[i].quantity > SizeLimit(Balance(balances', orders[i].pair), orders[i]))]_vars

\* a tick cancelled an order that passes the profitability test and is one
\* lot above the size limit
C36_Witness ==
  /\ last.op = "tick" /\ ~last.raised /\ config.active_order_canceling
  /\ \E i \in last.evaluated :
        /\ PassesProfitability(Observed, orders[i])
        /\ [id |-> i, reason |-> "balance"] \in last.cancels
        /\ orders[i].quantity = SizeLimit(Balance(balances, orders[i].pair), orders[i]) + 1

\* ------------------------------------------------- the paper-trade venue
\* PaperTradeMarket on its own: an account per trading pair, a queue of
\* market orders, resting limit orders, and the order book of the real
\* market that it trades against.  Amounts are lots, prices and quote
\* balances are ticks, fees are zero.
TRADE_EXECUTION_DELAY == 5

\* the venue while a call runs: balances, limit orders, events triggered
Venue == [bal |-> account_balance, ords |-> orders, events |-> <<>>]

Emit(v, evs) == [v EXCEPT !.events = @ \o evs]

\* CompositeOrderBook.simulate_buy / simulate_sell: the rows of the book side
\* that an order of that volume consumes
RECURSIVE Rows(_, _)
Rows(levels, volume) ==
  IF volume <= 0 \/ levels = <<>> THEN <<>>
  ELSE IF Head(levels).amount >= volume THEN <<[price |-> Head(levels).price, amount |-> volume]>>
  ELSE <<Head(levels)>> \o Rows(Tail(levels), volume - Head(levels).amount)

RowsQuote(rows) == SumSeq([k \in 1..Len(rows) |-> rows[k].price * rows[k].amount])
RowsBase(rows) == SumSeq([k \in 1..Len(rows) |-> rows[k].amount])

FilledEvents(order_id, order_type, rows) ==
  [k \in 1..Len(rows) |-> Event("OrderFilled", order_id, order_type, rows[k].price, rows[k].amount, 0)]

\* variant: a sell that does not look at the base balance
c_execute_sell_unchecked(v, book, order_id, trading_pair, amount) ==
  LET sold(sell_entries) ==
        Emit([v EXCEPT !.bal[trading_pair].quote = @ + RowsQuote(sell_entries),
                       !.bal[trading_pair].base = @ - amount],
             FilledEvents(order_id, "MARKET", sell_entries) \o
             <<Event("SellOrderCompleted", order_id, "MARKET", 0, amount, RowsQuote(sell_entries))>>)
  IN sold(Rows(Book(book).bids, amount))

\* c_execute_buy: raises, before it has changed anything, when the quote
\* balance does not cover the rows; the caller catches it
c_execute_buy(v, book, order_id, trading_pair, amount) ==
  LET bought(buy_entries) ==
        IF RowsQuote(buy_entries) > v.bal[trading_pair].quote THEN v
        ELSE Emit([v EXCEPT !.bal[trading_pair].quote = @ - RowsQuote(buy_entries),
                            !.bal[trading_pair].base = @ + RowsBase(buy_entries)],
                  FilledEvents(order_id, "MARKET", buy_entries) \o
                  <<Event("BuyOrderCompleted", order_id, "MARKET", 0,
                          RowsBase(buy_entries), RowsQuote(buy_entries))>>)
  IN bought(Rows(Book(book).asks, amount))

\* c_execute_sell: raises when the base balance is below the amount
c_execute_sell(v, book, order_id, trading_pair, amount) ==
  LET sold(sell_entries) ==
        Emit([v EXCEPT !.bal[trading_pair].quote = @ + RowsQuote(sell_entries),
                       !.bal[trading_pair].base = @ - amount],
             FilledEvents(order_id, "MARKET", sell_entries) \o
             <<Event("SellOrderCompleted", order_id, "MARKET", 0, amount, RowsQuote(sell_entries))>>)
  IN IF amount > v.bal[trading_pair].base THEN v
     ELSE sold(Rows(Book(book).bids, amount))

execute(v, book, front_order) ==
  IF front_order.is_buy
  THEN c_execute_buy(v, book, front_order.order_id, front_order.trading_pair, front_order.amount)
  ELSE c_execute_sell(v, book, front_order.order_id, front_order.trading_pair, front_order.amount)

\* variant: the queue is executed without the delay
RECURSIVE c_process_market_orders_at_once(_, _, _, _)
c_process_market_orders_at_once(v, queue, book, now) ==
  IF queue = <<>> THEN [v |-> v, queue |-> queue]
  ELSE c_process_market_orders_at_once(execute(v, book, Head(queue)), Tail(queue), book, now)

\* variant: an order that cannot be executed stays at the front of the queue
RECURSIVE c_process_market_orders_retries(_, _, _, _)
c_process_market_orders_retries(v, queue, book, now) ==
  IF queue = <<>> THEN [v |-> v, queue |-> queue]
  ELSE IF Head(queue).create_timestamp <= now - TRADE_EXECUTION_DELAY
  THEN IF execute(v, book, Head(queue)) = v
       THEN [v |-> v, queue |-> queue]
       ELSE c_process_market_orders_retries(execute(v, book, Head(queue)), Tail(queue), book, now)
  ELSE [v |-> v, queue |-> queue]

\* c_process_market_orders: while the front order is due, pop it and execute
\* it, whatever the execution raises
RECURSIVE c_process_market_orders(_, _, _, _)
c_process_market_orders(v, queue, book, now) ==
  IF queue = <<>> THEN [v |-> v, queue |-> queue]
  ELSE IF Head(queue).create_timestamp <= now - TRADE_EXECUTION_DELAY
  THEN c_process_market_orders(execute(v, book, Head(queue)), Tail(queue), book, now)
  ELSE [v |-> v, queue |-> queue]

\* c_delete_limit_order: the order leaves its collection
c_delete_limit_order(v, i, now) ==
  [v EXCEPT !.ords[i].venue = "deleted", !.ords[i].closed = now]

\* c_process_limit_bid_order
c_process_limit_bid_order(v, i, now) ==
  LET traded(o, quote_asset_traded) ==
        IF v.bal[o.pair].quote < quote_asset_traded
        THEN c_delete_limit_order(v, i, now)
        ELSE c_delete_limit_order(
               Emit([v EXCEPT !.bal[o.pair].quote = @ - quote_asset_traded,
                              !.bal[o.pair].base = @ + o.quantity],
                    <<Event("OrderFilled", i, "LIMIT", o.price, o.quantity, 0),
                      Event("BuyOrderCompleted", i, "LIMIT", 0, o.quantity, quote_asset_traded)>>),
               i, now)
  IN traded(v.ords[i], v.ords[i].price * v.ords[i].quantity)

\* c_process_limit_ask_order
c_process_limit_ask_order(v, i, now) ==
  LET traded(o, quote_asset_traded) ==
        IF v.bal[o.pair].base < o.quantity
        THEN c_delete_limit_order(v, i, now)
        ELSE c_delete_limit_order(
               Emit([v EXCEPT !.bal[o.pair].quote = @ + quote_asset_traded,
                              !.bal[o.pair].base = @ - o.quantity],
                    <<Event("OrderFilled", i, "LIMIT", o.price, o.quantity, 0),
                      Event("SellOrderCompleted", i, "LIMIT", 0, o.quantity, quote_asset_traded)>>),
               i, now)
  IN traded(v.ords[i], v.ords[i].price * v.ords[i].quantity)

c_process_limit_order(v, is_buy, i, now) ==
  IF is_buy THEN c_process_limit_bid_order(v, i, now) ELSE c_process_limit_ask_order(v, i, now)

RECURSIVE process_order_its(_, _, _, _)
process_order_its(v, is_buy, its, now) ==
  IF its = <<>> THEN v
  ELSE process_order_its(c_process_limit_order(v, is_buy, Head(its), now), is_buy, Tail(its), now)

\* a collection of limit orders in the order of its std::set: by price, then
\* by client order id
RECURSIVE ByPrice(_, _)
ByPrice(ords, S) ==
  IF S = {} THEN <<>>
  ELSE LET from(m) == <<m>> \o ByPrice(ords, S \ {m})
       IN from(CHOOSE x \in S : \A y \in S :
                 \/ ords[x].price < ords[y].price
                 \/ ords[x].price = ords[y].price /\ x <= y)

Reversed(q) == [k \in 1..Len(q) |-> q[Len(q) + 1 - k]]

\* c_process_crossed_limit_orders_for_symbol: the bids from the highest down
\* to the first one below the best ask, the asks from the lowest up to the
\* first one above the best bid
c_process_crossed_limit_orders_for_symbol(v, is_buy, trading_pair, book, now) ==
  LET opposite_order_book_price == IF is_buy THEN Book(book).asks[1].price ELSE Book(book).bids[1].price
      crossed(i) == IF is_buy THEN ~(opposite_order_book_price > v.ords[i].price)
                              ELSE ~(opposite_order_book_price < v.ords[i].price)
      its(sorted) == SelectSeq(IF is_buy THEN Reversed(sorted) ELSE sorted, crossed)
  IN process_order_its(v, is_buy,
                       its(ByPrice(v.ords, RestingLimitOrders(v.ords, trading_pair, is_buy))), now)

\* the loop of c_process_crossed_limit_orders over one map: c_delete_limit_order
\* erases the entry of a symbol whose collection became empty and moves the
\* map iterator on, and the loop increments it once more
RECURSIVE crossed_limit_orders_of_map(_, _, _, _, _)
crossed_limit_orders_of_map(v, is_buy, symbols, book, now) ==
  IF symbols = <<>> THEN v
  ELSE LET next(v1) ==
             crossed_limit_orders_of_map(
               v1, is_buy,
               IF RestingLimitOrders(v1.ords, Head(symbols), is_buy) = {} /\ Len(symbols) >= 2
               THEN Tail(Tail(symbols)) ELSE Tail(symbols),
               book, now)
       IN next(c_process_crossed_limit_orders_for_symbol(v, is_buy, Head(symbols), book, now))

MapKeys(ords, is_buy) ==
  SortedSeq({tp \in TradingPairs : RestingLimitOrders(ords, tp, is_buy) # {}})

\* c_process_crossed_limit_orders: the bid map, then the ask map
c_process_crossed_limit_orders(v, book, now) ==
  LET asks(v1) == crossed_limit_orders_of_map(v1, FALSE, MapKeys(v1.ords, FALSE), book, now)
  IN asks(crossed_limit_orders_of_map(v, TRUE, MapKeys(v.ords, TRUE), book, now))

\* c_match_trade_to_limit_orders: a trade on the real market at trade_price
\* fills the bids above it (a sell) or the asks below it (a buy)
c_match_trade_to_limit_orders(v, trading_pair, is_maker_buy, trade_price, now) ==
  LET better(i) == IF is_maker_buy THEN ~(v.ords[i].price <= trade_price)
                                   ELSE ~(v.ords[i].price >= trade_price)
      its(sorted) == SelectSeq(IF is_maker_buy THEN Reversed(sorted) ELSE sorted, better)
  IN process_order_its(v, is_maker_buy,
                       its(ByPrice(v.ords, RestingLimitOrders(v.ords, trading_pair, is_maker_buy))), now)

PaperUnchanged == <<last_timestamp, markets_ready, all_markets_ready,
                    tracked_maker_orders, tracked_taker_orders, in_flight_cancels,
                    market_pair_tracker, order_fill_buy_events, order_fill_sell_events,
                    anti_hysteresis_timers, suggested_price_samples, balances, config,
                    hedges_since_tick>>

\* PaperTradeMarket.c_buy / c_sell with OrderType.MARKET: the order is queued
PaperTradeMarketOrder(trading_pair, is_buy, amount) ==
  /\ next_order_id <= MaxOrderId
  /\ queued_orders' = Append(queued_orders,
                             [create_timestamp |-> current_timestamp, order_id |-> next_order_id,
                              is_buy |-> is_buy, trading_pair |-> trading_pair, amount |-> amount])
  /\ next_order_id' = next_order_id + 1
  /\ last' = [NoLast EXCEPT !.op = "created", !.order_id = next_order_id, !.order_type = "MARKET"]
  /\ UNCHANGED <<current_timestamp, ticks, orders, account_balance, taker_book>>
  /\ UNCHANGED PaperUnchanged

\* PaperTradeMarket.c_tick(timestamp) with the real market's book as it is
PaperTradeTick(book, dt) ==
  /\ ticks < MaxTicks
  /\ LET now == current_timestamp + dt
         limits(r) == c_process_crossed_limit_orders(r.v, book, now)
         done(r, v) ==
           /\ account_balance' = v.bal
           /\ orders' = v.ords
           /\ queued_orders' = r.queue
           /\ last' = [NoLast EXCEPT !.op = "venue_tick", !.events = v.events]
         ticked(r) == done(r, limits(r))
     IN /\ ticked(c_process_market_orders(Venue, queued_orders, book, now))
        /\ current_timestamp' = now
  /\ ticks' = ticks + 1
  /\ taker_book' = book
  /\ UNCHANGED next_order_id
  /\ UNCHANGED PaperUnchanged

\* the order book reports a trade of the real market
PaperTradeTradeEvent(trading_pair, is_maker_buy, trade_price) ==
  /\ LET done(v) ==
           /\ account_balance' = v.bal
           /\ orders' = v.ords
           /\ last' = [NoLast EXCEPT !.op = "trade", !.pair = trading_pair,
                                     !.is_bid = is_maker_buy, !.price = trade_price,
                                     !.events = v.events]
     IN done(c_match_trade_to_limit_orders(Venue, trading_pair, is_maker_buy, trade_price,
                                           current_timestamp))
  /\ RestingLimitOrders(orders, trading_pair, is_maker_buy) # {}
  /\ UNCHANGED <<current_timestamp, ticks, next_order_id, queued_orders, taker_book>>
  /\ UNCHANGED PaperUnchanged

PaperBooks == {"normal", "fallen", "bid1020"}
PaperTickSteps == {3, 5}
Funded == [tp \in TradingPairs |-> [base |-> 10, quote |-> 10000]]

InitPaper ==
  /\ current_timestamp = 0
  /\ last_timestamp = 0
  /\ ticks = 0
  /\ markets_ready = TRUE
  /\ all_markets_ready = FALSE
  /\ next_order_id = 1
  /\ orders = << >>
  /\ tracked_maker_orders = {}
  /\ tracked_taker_orders = {}
  /\ in_flight_cancels = {}
  /\ market_pair_tracker = << >>
  /\ order_fill_buy_events = [p \in Pairs |-> <<>>]
  /\ order_fill_sell_events = [p \in Pairs |-> <<>>]
  /\ anti_hysteresis_timers = [p \in Pairs |-> 0]
  /\ suggested_price_samples = [p \in Pairs |-> [bids |-> <<>>, asks |-> <<>>]]
  /\ taker_book = "normal"
  /\ balances = "rich"
  /\ config = ActiveConfig(<<1>>)
  /\ hedges_since_tick = NoHedges
  /\ account_balance = Funded
  /\ queued_orders = <<>>
  /\ last = NoLast

NextPaper ==
  \/ \E is_buy \in BOOLEAN : PaperTradeMarketOrder(1, is_buy, 8)
  \/ \E is_buy \in BOOLEAN :
        PaperTradeLimitOrderAt(1, is_buy, IF is_buy THEN 985 ELSE 1016, 10)
  \/ \E is_buy \in BOOLEAN : \E id \in RestingLimitOrders(orders, 1, is_buy) :
        PaperTradeCancel(1, is_buy, id)
  \/ \E book \in PaperBooks, dt \in PaperTickSteps : PaperTradeTick(book, dt)
  \/ \E is_maker_buy \in BOOLEAN :
        PaperTradeTradeEvent(1, is_maker_buy, IF is_maker_buy THEN 980 ELSE 1020)

SpecPaper == InitPaper /\ [][NextPaper]_vars

\* ---- properties of the paper-trade venue
EventsOf(evs, order_id) ==
  LET of_order(e) == e.order_id = order_id IN SelectSeq(evs, of_order)

QueueIndex(queue, order_id) == CHOOSE q \in 1..Len(queue) : queue[q].order_id = order_id

IsCompleted(e) == e.type \in {"BuyOrderCompleted", "SellOrderCompleted"}

\* what the completion events of a tick announce for the two balances
CompletedBase(evs) ==
  SumSeq([k \in 1..Len(evs) |->
            IF evs[k].type = "BuyOrderCompleted" THEN evs[k].base_amount
            ELSE IF evs[k].type = "SellOrderCompleted" THEN 0 - evs[k].base_amount ELSE 0])

CompletedQuote(evs) ==
  SumSeq([k \in 1..Len(evs) |->
            IF evs[k].type = "SellOrderCompleted" THEN evs[k].quote_amount
            ELSE IF evs[k].type = "BuyOrderCompleted" THEN 0 - evs[k].quote_amount ELSE 0])

\* C37: on the paper-trade venue a MARKET order is executed only on a tick
\* whose timestamp is at least TRADE_EXECUTION_DELAY (5 s) after the order's
\* creation timestamp, and queued market orders are executed in the order in
\* which they were submitted: the orders a tick takes off the queue are its
\* front, and the events of market orders follow the queue's order.
C37_MarketOrdersWaitAndKeepOrder ==
  [][last'.op = "venue_tick" =>
       /\ Len(queued_orders') <= Len(queued_orders)
       /\ queued_orders' = SubSeq(queued_orders,
                                  Len(queued_orders) - Len(queued_orders') + 1,
                                  Len(queued_orders))
       /\ \A k \in 1..Len(last'.events) :
            last'.events[k].order_type = "MARKET" =>
              \E q \in 1..(Len(queued_orders) - Len(queued_orders')) :
                 /\ queued_orders[q].order_id = last'.events[k].order_id
                 /\ queued_orders[q].create_timestamp + TRADE_EXECUTION_DELAY
                      <= current_timestamp'
       /\ \A j, k \in 1..Len(last'.events) :
            (j < k /\ last'.events[j].order_type = "MARKET"
                   /\ last'.events[k].order_type = "MARKET") =>
              QueueIndex(queued_orders, last'.events[j].order_id)
                <= QueueIndex(queued_orders, last'.events[k].order_id)
  ]_vars

\* a tick has executed orders 1 and 2, in that order, while order 3, submitted
\* less than 5 s before, stays queued
C37_Witness ==
  /\ last.op = "venue_tick"
  /\ Len(queued_orders) = 1
  /\ queued_orders[1].order_id = 3
  /\ queued_orders[1].create_timestamp + TRADE_EXECUTION_DELAY > current_timestamp
  /\ \E j, k \in 1..Len(last.events) :
       /\ j < k
       /\ IsCompleted(last.events[j]) /\ last.events[j].order_id = 1
       /\ IsCompleted(last.events[k]) /\ last.events[k].order_id = 2

\* C38: when the execution of a queued MARKET order fails for insufficient
\* balance, both balances are left as they were, no fill or completion event
\* is emitted for it, the order leaves the queue and is never retried, and the
\* queued orders behind it are still processed in the same tick.  Every due
\* order is off the queue after the tick; one of them that was not completed
\* has no event at all; the balances move by what the completion events
\* announce and by nothing else; only a new order enters the queue.
C38_FailedMarketOrderIsDropped ==
  [][/\ \A r \in 1..Len(queued_orders') :
          \/ \E q \in 1..Len(queued_orders) : queued_orders[q] = queued_orders'[r]
          \/ queued_orders'[r].order_id = next_order_id
     /\ last'.op = "venue_tick" =>
          /\ \A q \in 1..Len(queued_orders) :
               queued_orders[q].create_timestamp + TRADE_EXECUTION_DELAY <= current_timestamp' =>
                 /\ \A r \in 1..Len(queued_orders') :
                      queued_orders'[r].order_id # queued_orders[q].order_id
                 /\ \/ \E k \in 1..Len(last'.events) :
                         /\ IsCompleted(last'.events[k])
                         /\ last'.events[k].order_id = queued_orders[q].order_id
                    \/ EventsOf(last'.events, queued_orders[q].order_id) = <<>>
          /\ \A tp \in TradingPairs :
               /\ account_balance'[tp].base =
                    account_balance[tp].base + (IF tp = 1 THEN CompletedBase(last'.events) ELSE 0)
               /\ account_balance'[tp].quote =
                    account_balance[tp].quote + (IF tp = 1 THEN CompletedQuote(last'.events) ELSE 0)
  ]_vars

\* three market orders were due in one tick: order 1 was executed, order 2
\* failed and left no event, order 3 behind it was executed, the queue is empty
C38_Witness ==
  /\ last.op = "venue_tick"
  /\ next_order_id = 4
  /\ DOMAIN orders = {}
  /\ queued_orders = <<>>
  /\ EventsOf(last.events, 2) = <<>>
  /\ \E j, k \in 1..Len(last.events) :
       /\ IsCompleted(last.events[j]) /\ last.events[j].order_id = 1
       /\ IsCompleted(last.events[k]) /\ last.events[k].order_id = 3

\* C39: starting from non-negative balances, no sequence of buy, sell, cancel
\* and tick operations of the paper-trade venue makes an asset's account
\* balance negative.
C39_BalancesNeverNegative ==
  \A tp \in DOMAIN account_balance :
     account_balance[tp].base >= 0 /\ account_balance[tp].quote >= 0

\* a market sell has taken the base balance from 10 to 2, and the next sell of
\* 8 was turned down
C39_Witness ==
  /\ last.op = "venue_tick"
  /\ account_balance[1].base = 2
  /\ \E k \in 1..Len(last.events) :
       last.events[k].type = "SellOrderCompleted" /\ last.events[k].order_id = 1
  /\ next_order_id >= 3
  /\ 2 \notin DOMAIN orders
  /\ queued_orders = <<>>
  /\ EventsOf(last.events, 2) = <<>>

\* C40: every LIMIT order that leaves the book is announced by exactly one
\* terminal event sequence: an OrderFilled event followed by a
\* Buy/SellOrderCompleted event for its full quantity at its limit price, or
\* an OrderCancelled event.
C40_EveryDepartureIsAnnounced ==
  [][\A i \in DOMAIN orders :
       (orders[i].venue = "open" /\ orders'[i].venue # "open") =>
         \/ EventsOf(last'.events, i) = <<OrderCancelledEvent(i)>>
         \/ EventsOf(last'.events, i) =
              <<Event("OrderFilled", i, "LIMIT", orders[i].price, orders[i].quantity, 0),
                Event(IF orders[i].is_buy THEN "BuyOrderCompleted" ELSE "SellOrderCompleted",
                      i, "LIMIT", 0, orders[i].quantity, orders[i].price * orders[i].quantity)>>
  ]_vars

====
